---- MODULE Spec2Model ----
(***************************************************************************)
(* Model of the rule-based study planner (src/src/study_planner.py).       *)
(*                                                                         *)
(* Hours are integers counting hundredths of an hour (3 h = 300), so that  *)
(* daily_hours given in tenths and the weekend products daily_hours*0.8    *)
(* and daily_hours*1.1 are exact.  Shares of the subject table are in      *)
(* hundredths (0.3 = 30) and scenario weights in tenths (0.8 = 8).         *)
(*                                                                         *)
(* Python computes these values in binary floating point.  The float       *)
(* result of round(x, 1) is the nearest tenth of the exact value whenever  *)
(* the exact value is not halfway between two tenths; exactly halfway, the *)
(* float error of the preceding products decides the direction.  The model *)
(* rounds the exact rational and leaves the direction of an exact tie open *)
(* (a boolean per rounded value, fixed per input so that equal calls give  *)
(* equal results).                                                         *)
(***************************************************************************)
EXTENDS Integers, Sequences, FiniteSets, TLC

\* ------------------------------------------------------------------ bounds
\* daily_hours ranges over the tenths -NegTenths .. MaxTenths of an hour
NegTenths == 2
MaxTenths == 22
\* selected_topics of a plan has 0 .. MaxTopics entries
MaxTopics == 1
\* selected_topics of a direct get_daily_focus_areas call has
\* 0 .. MaxFocusTopics entries
MaxFocusTopics == 15
\* a repeated call has 0, 0.5, .. MaxRepeatHalves * 0.5 hours (or one of the
\* concrete hours)
MaxRepeatHalves == 4
\* the web server handles requests on MaxThreads threads
MaxThreads == 2
\* the web server receives MaxRequests requests
MaxRequests == 2
\* a caller makes MaxCalls calls on one StudyPlanner
MaxCalls == 2

\* ------------------------------------------------------- program constants
\* min_block = 0.5 hours
MinBlock == 50

Activities == {"reading", "practice", "revision"}

\* ------------------------------------------------------------ lookup tables
subject_complexity ==
  ("Mathematics"      :> [reading |-> 30, practice |-> 50, revision |-> 20]) @@
  ("Physics"          :> [reading |-> 35, practice |-> 45, revision |-> 20]) @@
  ("Chemistry"        :> [reading |-> 40, practice |-> 40, revision |-> 20]) @@
  ("Biology"          :> [reading |-> 50, practice |-> 30, revision |-> 20]) @@
  ("Computer Science" :> [reading |-> 25, practice |-> 60, revision |-> 15]) @@
  ("English"          :> [reading |-> 60, practice |-> 25, revision |-> 15]) @@
  ("History"          :> [reading |-> 70, practice |-> 15, revision |-> 15])

DefaultDistribution == [reading |-> 40, practice |-> 40, revision |-> 20]

scenario_adjustments ==
  [ exam_prep     |-> [reading |-> 8,  practice |-> 12, revision |-> 15, intensity |-> "high"],
    homework      |-> [reading |-> 10, practice |-> 13, revision |-> 7,  intensity |-> "medium"],
    general_study |-> [reading |-> 11, practice |-> 10, revision |-> 9,  intensity |-> "low"],
    project_work  |-> [reading |-> 7,  practice |-> 15, revision |-> 8,  intensity |-> "medium"] ]

\* ---------------------------------------------------------------- rounding
Max(a, b) == IF a >= b THEN a ELSE b

\* floor(n / d) for d > 0 and any integer n
FloorDiv(n, d) == IF n >= 0 THEN n \div d ELSE -((-n + d - 1) \div d)

\* Whether num/den (den > 0) lies exactly halfway between two multiples of unit
IsTie(num, den, unit) ==
  LET D == den * unit
      lo == FloorDiv(num, D)
  IN  2 * (num - lo * D) = D

\* round(num/den, 1) on hundredths: the multiple of 10 nearest to num/den;
\* at an exact tie the float error decides, given here as up
Round1(num, den, up) ==
  LET D == den * 10
      lo == FloorDiv(num, D)
      r2 == 2 * (num - lo * D)
  IN  IF r2 < D THEN 10 * lo
      ELSE IF r2 > D THEN 10 * (lo + 1)
      ELSE IF up THEN 10 * (lo + 1) ELSE 10 * lo

\* Python round(x) of x = num/den to an integer: nearest, ties to even
RoundInt(num, den) ==
  LET lo == FloorDiv(num, den)
      r2 == 2 * (num - lo * den)
  IN  IF r2 < den THEN lo
      ELSE IF r2 > den THEN lo + 1
      ELSE IF lo % 2 = 0 THEN lo ELSE lo + 1

NoTies == [reading |-> FALSE, practice |-> FALSE, revision |-> FALSE, total |-> FALSE]

\* -------------------------------------------- calculate_time_distribution
\* Mutant of BaseDist: an unknown subject falls back to the first table entry
BaseDistFirstEntry(subject) ==
  IF subject \in DOMAIN subject_complexity
    THEN subject_complexity[subject]
    ELSE subject_complexity["Mathematics"]

BaseDist(subject) ==
  IF subject \in DOMAIN subject_complexity
    THEN subject_complexity[subject]
    ELSE DefaultDistribution

ScenarioAdj(scenario) ==
  IF scenario \in DOMAIN scenario_adjustments
    THEN scenario_adjustments[scenario]
    ELSE scenario_adjustments["general_study"]

\* base share * scenario weight, in 1/1000
Weight(subject, scenario, k) == BaseDist(subject)[k] * ScenarioAdj(scenario)[k]

\* base share * scenario weight * total_hours, in 1/1000 of a hundredth
RawTime(subject, total_hours, scenario, k) ==
  Weight(subject, scenario, k) * total_hours

TotalCalculated(subject, total_hours, scenario) ==
  RawTime(subject, total_hours, scenario, "reading")
    + RawTime(subject, total_hours, scenario, "practice")
    + RawTime(subject, total_hours, scenario, "revision")

WeightSum(subject, scenario) ==
  Weight(subject, scenario, "reading") + Weight(subject, scenario, "practice")
    + Weight(subject, scenario, "revision")

\* The unrounded time of activity k as the fraction <<numerator, denominator>>
\* of hundredths.  When the raw sum is positive the time is normalised:
\* (raw_k / total_calculated) * total_hours, which is
\* weight_k * total_hours / (sum of the weights); otherwise it is raw_k
ExactTime(subject, total_hours, scenario, k) ==
  IF TotalCalculated(subject, total_hours, scenario) > 0
    THEN << RawTime(subject, total_hours, scenario, k), WeightSum(subject, scenario) >>
    ELSE << RawTime(subject, total_hours, scenario, k), 1000 >>

\* Mutant of ExactTotal: the total is the sum of the three rounded parts
ExactTotalOfRoundedParts(subject, total_hours, scenario) ==
  LET T(k) == Round1(ExactTime(subject, total_hours, scenario, k)[1],
                     ExactTime(subject, total_hours, scenario, k)[2], FALSE)
  IN  << T("reading") + T("practice") + T("revision"), 1 >>

\* The unrounded sum of the three times, as a fraction
ExactTotal(subject, total_hours, scenario) ==
  LET tc == TotalCalculated(subject, total_hours, scenario)
  IN  IF tc > 0 THEN << total_hours, 1 >> ELSE << tc, 1000 >>

calculate_time_distribution(subject, total_hours, scenario, tie) ==
  LET r == ExactTime(subject, total_hours, scenario, "reading")
      p == ExactTime(subject, total_hours, scenario, "practice")
      v == ExactTime(subject, total_hours, scenario, "revision")
      t == ExactTotal(subject, total_hours, scenario)
  IN  [ reading  |-> Round1(r[1], r[2], tie.reading),
        practice |-> Round1(p[1], p[2], tie.practice),
        revision |-> Round1(v[1], v[2], tie.revision),
        total    |-> Round1(t[1], t[2], tie.total) ]

\* The tie directions open for one call: a field may be TRUE only where the
\* exact value is a tie
TieChoices(subject, total_hours, scenario) ==
  LET T(k) == IF IsTie(ExactTime(subject, total_hours, scenario, k)[1],
                       ExactTime(subject, total_hours, scenario, k)[2], 10)
                THEN BOOLEAN ELSE {FALSE}
      t == ExactTotal(subject, total_hours, scenario)
  IN  [ reading : T("reading"), practice : T("practice"), revision : T("revision"),
        total : IF IsTie(t[1], t[2], 10) THEN BOOLEAN ELSE {FALSE} ]

\* ------------------------------------------------ generate_daily_schedule
\* Mutant of Blocks: the minimum of one block is missing
BlocksNoMinimum(hours) == RoundInt(hours, MinBlock)

\* Mutant of Blocks: the quotient is rounded up
BlocksRoundedUp(hours) == Max(1, 0 - FloorDiv(0 - hours, MinBlock))

\* max(1, round(hours / min_block))
Blocks(hours) == Max(1, RoundInt(hours, MinBlock))

\* Mutant of Block: the first tip is lost
BlockFirstTipLost(activity, duration, description, tips) ==
  [activity |-> activity, duration |-> duration,
   description |-> description, tips |-> Tail(tips)]

\* One entry of the schedule list
Block(activity, duration, description, tips) ==
  [activity |-> activity, duration |-> duration,
   description |-> description, tips |-> tips]

\* Mutant of ExamPrepSchedule: the break is inserted above 1 hour
ExamPrepBreakOverOneHour(subject, daily_hours, reading_blocks, practice_blocks, revision_blocks) ==
  << Block("Quick Review", 25,
           <<"Quick review of previous ", subject, " topics">>,
           <<"Review flashcards", "Skim through notes", "Identify weak areas">>),
     Block("Intensive Practice", practice_blocks * MinBlock,
           <<"Solve ", subject, " exam-style problems">>,
           <<"Time yourself strictly", "Practice past exam questions",
             "Focus on problem-solving speed">>) >>
  \o (IF daily_hours > 100
        THEN << Block("Short Break", 25, <<"Quick energy break">>,
                      <<"Do breathing exercises", "Stay hydrated">>) >>
        ELSE << >>)
  \o << Block("Targeted Reading", reading_blocks * MinBlock,
              <<"Study difficult ", subject, " concepts">>,
              <<"Focus on exam syllabus", "Make concise notes",
                "Understand rather than memorize">>),
        Block("Active Revision", revision_blocks * MinBlock,
              <<"Test knowledge and fill gaps">>,
              <<"Self-testing", "Create mind maps", "Explain concepts aloud">>) >>

ExamPrepSchedule(subject, daily_hours, reading_blocks, practice_blocks, revision_blocks) ==
  << Block("Quick Review", 25,
           <<"Quick review of previous ", subject, " topics">>,
           <<"Review flashcards", "Skim through notes", "Identify weak areas">>),
     Block("Intensive Practice", practice_blocks * MinBlock,
           <<"Solve ", subject, " exam-style problems">>,
           <<"Time yourself strictly", "Practice past exam questions",
             "Focus on problem-solving speed">>) >>
  \o (IF daily_hours > 150
        THEN << Block("Short Break", 25, <<"Quick energy break">>,
                      <<"Do breathing exercises", "Stay hydrated">>) >>
        ELSE << >>)
  \o << Block("Targeted Reading", reading_blocks * MinBlock,
              <<"Study difficult ", subject, " concepts">>,
              <<"Focus on exam syllabus", "Make concise notes",
                "Understand rather than memorize">>),
        Block("Active Revision", revision_blocks * MinBlock,
              <<"Test knowledge and fill gaps">>,
              <<"Self-testing", "Create mind maps", "Explain concepts aloud">>) >>

HomeworkSchedule(subject, daily_hours, reading_blocks, practice_blocks, revision_blocks) ==
  << Block("Homework Planning", 25,
           <<"Review homework requirements and plan approach">>,
           <<"Read instructions carefully", "Break down complex tasks",
             "Gather required materials">>),
     Block("Research & Reading", reading_blocks * MinBlock,
           <<"Research and read relevant ", subject, " materials">>,
           <<"Use reliable sources", "Take detailed notes", "Cite sources properly">>),
     Block("Homework Execution", practice_blocks * MinBlock,
           <<"Complete ", subject, " homework assignments">>,
           <<"Follow assignment guidelines", "Show all work clearly",
             "Double-check answers">>) >>
  \o (IF daily_hours > 100
        THEN << Block("Break", 25, <<"Rest and recharge">>,
                      <<"Step away from work", "Stretch or walk">>) >>
        ELSE << >>)
  \o << Block("Review & Polish", revision_blocks * MinBlock,
              <<"Review completed work and make improvements">>,
              <<"Proofread carefully", "Check formatting", "Ensure completeness">>) >>

ProjectWorkSchedule(subject, daily_hours, reading_blocks, practice_blocks, revision_blocks) ==
  << Block("Project Planning", 50,
           <<"Plan ", subject, " project tasks and milestones">>,
           <<"Set clear objectives", "Create timeline", "Identify resources needed">>),
     Block("Research & Investigation", reading_blocks * MinBlock,
           <<"Research ", subject, " project topics">>,
           <<"Use multiple sources", "Take organized notes",
             "Verify information accuracy">>),
     Block("Hands-on Work", practice_blocks * MinBlock,
           <<"Work on ", subject, " project implementation">>,
           <<"Document your process", "Test ideas iteratively", "Keep backup copies">>) >>
  \o (IF daily_hours > 200
        THEN << Block("Creative Break", 25,
                      <<"Take a creative break to refresh ideas">>,
                      <<"Go for a walk", "Listen to music", "Brainstorm freely">>) >>
        ELSE << >>)
  \o << Block("Review & Refine", revision_blocks * MinBlock,
              <<"Review project progress and refine work">>,
              <<"Assess quality", "Get feedback if possible", "Plan next steps">>) >>

\* Mutant of GeneralStudySchedule: the Revision block is appended inside the
\* branch of the second break
GeneralStudyRevisionUnderBreak(subject, daily_hours, reading_blocks, practice_blocks, revision_blocks) ==
  << Block("Reading", reading_blocks * MinBlock,
           <<"Read ", subject, " theory and concepts">>,
           <<"Take notes while reading", "Highlight key concepts",
             "Ask questions about unclear topics">>) >>
  \o (IF daily_hours > 100
        THEN << Block("Break", 25, <<"Short break - stretch, hydrate">>,
                      <<"Step away from study area", "Do light physical activity">>) >>
        ELSE << >>)
  \o << Block("Practice", practice_blocks * MinBlock,
              <<"Solve ", subject, " problems and exercises">>,
              <<"Start with easier problems", "Time yourself",
                "Check solutions carefully">>) >>
  \o (IF daily_hours > 200
        THEN << Block("Break", 25, <<"Medium break - refresh mind">>,
                      <<"Get fresh air if possible", "Have a healthy snack">>),
                Block("Revision", revision_blocks * MinBlock,
                      <<"Review and consolidate ", subject, " learning">>,
                      <<"Summarize key points", "Test yourself",
                        "Connect new concepts with previous knowledge">>) >>
        ELSE << >>)

\* Mutant of GeneralStudySchedule: the second break is inserted from 2 hours on
GeneralStudySecondBreakFromTwo(subject, daily_hours, reading_blocks, practice_blocks, revision_blocks) ==
  << Block("Reading", reading_blocks * MinBlock,
           <<"Read ", subject, " theory and concepts">>,
           <<"Take notes while reading", "Highlight key concepts",
             "Ask questions about unclear topics">>) >>
  \o (IF daily_hours > 100
        THEN << Block("Break", 25, <<"Short break - stretch, hydrate">>,
                      <<"Step away from study area", "Do light physical activity">>) >>
        ELSE << >>)
  \o << Block("Practice", practice_blocks * MinBlock,
              <<"Solve ", subject, " problems and exercises">>,
              <<"Start with easier problems", "Time yourself",
                "Check solutions carefully">>) >>
  \o (IF daily_hours >= 200
        THEN << Block("Break", 25, <<"Medium break - refresh mind">>,
                      <<"Get fresh air if possible", "Have a healthy snack">>) >>
        ELSE << >>)
  \o << Block("Revision", revision_blocks * MinBlock,
              <<"Review and consolidate ", subject, " learning">>,
              <<"Summarize key points", "Test yourself",
                "Connect new concepts with previous knowledge">>) >>

GeneralStudySchedule(subject, daily_hours, reading_blocks, practice_blocks, revision_blocks) ==
  << Block("Reading", reading_blocks * MinBlock,
           <<"Read ", subject, " theory and concepts">>,
           <<"Take notes while reading", "Highlight key concepts",
             "Ask questions about unclear topics">>) >>
  \o (IF daily_hours > 100
        THEN << Block("Break", 25, <<"Short break - stretch, hydrate">>,
                      <<"Step away from study area", "Do light physical activity">>) >>
        ELSE << >>)
  \o << Block("Practice", practice_blocks * MinBlock,
              <<"Solve ", subject, " problems and exercises">>,
              <<"Start with easier problems", "Time yourself",
                "Check solutions carefully">>) >>
  \o (IF daily_hours > 200
        THEN << Block("Break", 25, <<"Medium break - refresh mind">>,
                      <<"Get fresh air if possible", "Have a healthy snack">>) >>
        ELSE << >>)
  \o << Block("Revision", revision_blocks * MinBlock,
              <<"Review and consolidate ", subject, " learning">>,
              <<"Summarize key points", "Test yourself",
                "Connect new concepts with previous knowledge">>) >>

generate_daily_schedule(subject, daily_hours, scenario, tie) ==
  LET time_dist == calculate_time_distribution(subject, daily_hours, scenario, tie)
      reading_blocks  == Blocks(time_dist.reading)
      practice_blocks == Blocks(time_dist.practice)
      revision_blocks == Blocks(time_dist.revision)
  IN  IF scenario = "exam_prep"
        THEN ExamPrepSchedule(subject, daily_hours, reading_blocks, practice_blocks, revision_blocks)
      ELSE IF scenario = "homework"
        THEN HomeworkSchedule(subject, daily_hours, reading_blocks, practice_blocks, revision_blocks)
      ELSE IF scenario = "project_work"
        THEN ProjectWorkSchedule(subject, daily_hours, reading_blocks, practice_blocks, revision_blocks)
      ELSE GeneralStudySchedule(subject, daily_hours, reading_blocks, practice_blocks, revision_blocks)

\* The allocation whose block count gives the duration of a block with this
\* activity name ("none": a fixed-duration block)
AllocationOf(activity) ==
  IF activity \in {"Targeted Reading", "Research & Reading",
                   "Research & Investigation", "Reading"} THEN "reading"
  ELSE IF activity \in {"Intensive Practice", "Homework Execution",
                        "Hands-on Work", "Practice"} THEN "practice"
  ELSE IF activity \in {"Active Revision", "Review & Polish",
                        "Review & Refine", "Revision"} THEN "revision"
  ELSE "none"

\* -------------------------------------------------- get_daily_focus_areas
\* Mutant of Days: Saturday is listed twice and Sunday is missing
DaysSaturdayTwice ==
  <<"Monday", "Tuesday", "Wednesday", "Thursday", "Friday", "Saturday", "Saturday">>

Days == <<"Monday", "Tuesday", "Wednesday", "Thursday", "Friday", "Saturday", "Sunday">>

\* list.index(day), 0-based
DayIndex(day) == (CHOOSE i \in 1..Len(Days) : Days[i] = day) - 1

Min(a, b) == IF a <= b THEN a ELSE b

\* Mutant of Slice: the end index is inclusive
SliceInclusive(s, a, b) == SubSeq(s, a + 1, Min(b + 1, Len(s)))

\* Python slice s[a:b] for 0 <= a, 0 <= b
Slice(s, a, b) == SubSeq(s, a + 1, Min(b, Len(s)))

focus_areas ==
  ("Mathematics" :> (
     ("Monday" :> <<"Algebra fundamentals", "Linear equations">>) @@
     ("Tuesday" :> <<"Geometry concepts", "Area and volume">>) @@
     ("Wednesday" :> <<"Calculus basics", "Derivatives">>) @@
     ("Thursday" :> <<"Statistics", "Probability">>) @@
     ("Friday" :> <<"Problem-solving practice", "Mixed exercises">>) @@
     ("Saturday" :> <<"Review weak areas", "Practice tests">>) @@
     ("Sunday" :> <<"Comprehensive review", "Prepare for next week">>))) @@
  ("Physics" :> (
     ("Monday" :> <<"Mechanics", "Newton's laws">>) @@
     ("Tuesday" :> <<"Energy and momentum", "Work and power">>) @@
     ("Wednesday" :> <<"Waves and oscillations", "Sound">>) @@
     ("Thursday" :> <<"Electricity and magnetism", "Circuits">>) @@
     ("Friday" :> <<"Thermodynamics", "Heat transfer">>) @@
     ("Saturday" :> <<"Problem-solving", "Laboratory concepts">>) @@
     ("Sunday" :> <<"Review and integration", "Conceptual understanding">>))) @@
  ("Chemistry" :> (
     ("Monday" :> <<"Atomic structure", "Periodic table">>) @@
     ("Tuesday" :> <<"Chemical bonding", "Molecular geometry">>) @@
     ("Wednesday" :> <<"Chemical reactions", "Stoichiometry">>) @@
     ("Thursday" :> <<"Solutions and concentrations", "Acids and bases">>) @@
     ("Friday" :> <<"Organic chemistry basics", "Functional groups">>) @@
     ("Saturday" :> <<"Laboratory techniques", "Safety procedures">>) @@
     ("Sunday" :> <<"Review and practice", "Concept connections">>))) @@
  ("Biology" :> (
     ("Monday" :> <<"Cell structure and function", "Organelles">>) @@
     ("Tuesday" :> <<"Genetics and heredity", "DNA and RNA">>) @@
     ("Wednesday" :> <<"Evolution and natural selection", "Species">>) @@
     ("Thursday" :> <<"Ecology and ecosystems", "Environmental science">>) @@
     ("Friday" :> <<"Human anatomy and physiology", "Body systems">>) @@
     ("Saturday" :> <<"Laboratory skills", "Microscopy">>) @@
     ("Sunday" :> <<"Review and synthesis", "Biological connections">>))) @@
  ("Computer Science" :> (
     ("Monday" :> <<"Programming fundamentals", "Syntax and logic">>) @@
     ("Tuesday" :> <<"Data structures", "Arrays and lists">>) @@
     ("Wednesday" :> <<"Algorithms", "Sorting and searching">>) @@
     ("Thursday" :> <<"Object-oriented programming", "Classes and objects">>) @@
     ("Friday" :> <<"Database concepts", "SQL basics">>) @@
     ("Saturday" :> <<"Project work", "Coding practice">>) @@
     ("Sunday" :> <<"Code review", "Debugging and testing">>)))

get_daily_focus_areas(subject, day, scenario, selected_topics) ==
  IF selected_topics # << >>
    THEN LET topics_per_day == Max(1, Len(selected_topics) \div 7)
             day_index == DayIndex(day)
             start_idx == day_index * topics_per_day
             end_idx   == start_idx + topics_per_day
         IN  IF day = "Sunday"
               THEN IF start_idx < Len(selected_topics)
                      THEN Slice(selected_topics, start_idx, Len(selected_topics))
                      ELSE Slice(selected_topics, 0, 2)
               ELSE IF start_idx < Len(selected_topics)
                      THEN Slice(selected_topics, start_idx, end_idx)
                      ELSE Slice(selected_topics, 0, 1)
    ELSE IF subject \in DOMAIN focus_areas
           THEN IF day \in DOMAIN focus_areas[subject]
                  THEN focus_areas[subject][day]
                  ELSE <<"General study", "Review concepts">>
           ELSE <<"Core concepts", "Practice exercises", "Review materials">>

\* ------------------------------------------------------------------- dates
\* A date string is the sequence of its characters; a date object is a record
\* of year, month and day.
DigitChars == <<"0", "1", "2", "3", "4", "5", "6", "7", "8", "9">>

DigitValue(c) == (CHOOSE i \in 1..10 : DigitChars[i] = c) - 1

\* int() of a string of digits
RECURSIVE ParseInt(_)
ParseInt(cs) ==
  IF cs = << >> THEN 0
  ELSE 10 * ParseInt(SubSeq(cs, 1, Len(cs) - 1)) + DigitValue(cs[Len(cs)])

\* '%0<width>d' % n for n >= 0
RECURSIVE ZeroPadded(_, _)
ZeroPadded(n, width) ==
  IF width = 0 /\ n = 0 THEN << >>
  ELSE Append(ZeroPadded(n \div 10, Max(width - 1, 0)), DigitChars[(n % 10) + 1])

\* datetime.strptime(s, '%Y-%m-%d').date() for a string of the form YYYY-MM-DD
strptime(s) ==
  [ year  |-> ParseInt(SubSeq(s, 1, 4)),
    month |-> ParseInt(SubSeq(s, 6, 7)),
    day   |-> ParseInt(SubSeq(s, 9, 10)) ]

\* date.isoformat(): '%04d-%02d-%02d'
isoformat(date) ==
  ZeroPadded(date.year, 4) \o <<"-">> \o ZeroPadded(date.month, 2)
    \o <<"-">> \o ZeroPadded(date.day, 2)

\* Mutant of is_leap: every fourth year is a leap year
IsLeapEveryFourthYear(year) == year % 4 = 0

is_leap(year) == year % 4 = 0 /\ (year % 100 # 0 \/ year % 400 = 0)

\* The days of the months of a common year
DAYS_IN_MONTH == <<31, 28, 31, 30, 31, 30, 31, 31, 30, 31, 30, 31>>

RECURSIVE DaysBeforeMonthPlain(_)
DaysBeforeMonthPlain(month) ==
  IF month = 1 THEN 0 ELSE DaysBeforeMonthPlain(month - 1) + DAYS_IN_MONTH[month - 1]

\* number of days before January 1st of year
days_before_year(year) ==
  LET y == year - 1
  IN  y * 365 + y \div 4 - y \div 100 + y \div 400

\* number of days in the year preceding the first day of month
days_before_month(year, month) ==
  DaysBeforeMonthPlain(month) + (IF month > 2 /\ is_leap(year) THEN 1 ELSE 0)

\* date.toordinal(): 0001-01-01 is day 1
ymd2ord(date) ==
  days_before_year(date.year) + days_before_month(date.year, date.month) + date.day

\* date.fromordinal(n)
ord2ymd(ordinal) ==
  LET n0   == ordinal - 1
      n400 == n0 \div 146097
      r400 == n0 % 146097
      n100 == r400 \div 36524
      r100 == r400 % 36524
      n4   == r100 \div 1461
      r4   == r100 % 1461
      n1   == r4 \div 365
      n    == r4 % 365
      year == n400 * 400 + 1 + n100 * 100 + n4 * 4 + n1
  IN  IF n1 = 4 \/ n100 = 4
        THEN [year |-> year - 1, month |-> 12, day |-> 31]
        ELSE LET guess == (n + 50) \div 32
                 preceding == days_before_month(year, guess)
                 month == IF preceding > n THEN guess - 1 ELSE guess
             IN  [ year  |-> year,
                   month |-> month,
                   day   |-> n - days_before_month(year, month) + 1 ]

\* date + timedelta(days = days)
DateAdd(date, days) == ord2ymd(ymd2ord(date) + days)

\* ------------------------------------------------------ create_weekly_plan
\* dict[key] = value on an insertion-ordered dict kept as a sequence of
\* [key, value] entries: an existing key keeps its place
DictSet(d, key, value) ==
  IF \E i \in 1..Len(d) : d[i].key = key
    THEN [i \in 1..Len(d) |-> IF d[i].key = key THEN [key |-> key, value |-> value] ELSE d[i]]
    ELSE Append(d, [key |-> key, value |-> value])

DictKeys(d) == [i \in 1..Len(d) |-> d[i].key]

DictGet(d, key) == d[CHOOSE i \in 1..Len(d) : d[i].key = key].value

\* Mutant of AdjustedHours: exam_prep raises the hours of every day
AdjustedHoursExamEveryDay(daily_hours, scenario, day) ==
  IF scenario = "general_study" /\ day \in {"Saturday", "Sunday"}
    THEN (daily_hours * 8) \div 10
  ELSE IF scenario = "exam_prep"
    THEN (daily_hours * 11) \div 10
  ELSE daily_hours

\* daily_hours * 0.8 and daily_hours * 1.1 (exact for daily_hours in tenths)
AdjustedHours(daily_hours, scenario, day) ==
  IF scenario = "general_study" /\ day \in {"Saturday", "Sunday"}
    THEN (daily_hours * 8) \div 10
  ELSE IF scenario = "exam_prep"
    THEN IF day \in {"Saturday", "Sunday"} THEN (daily_hours * 11) \div 10 ELSE daily_hours
  ELSE daily_hours

\* The float tie directions of one plan: fp.day for calls with daily_hours,
\* fp.wkend for calls with other adjusted hours, fp.week for the weekly total,
\* fp.planned for round(adjusted_hours, 1)
TieOf(fp, daily_hours, adjusted_hours) ==
  IF adjusted_hours = daily_hours THEN fp.day ELSE fp.wkend

DayEntry(subject, daily_hours, scenario, start_date, selected_topics, fp, i) ==
  LET day == Days[i + 1]
      adjusted_hours == AdjustedHours(daily_hours, scenario, day)
  IN  [ date          |-> isoformat(DateAdd(start_date, i)),
        planned_hours |-> Round1(adjusted_hours, 1, fp.planned),
        schedule      |-> generate_daily_schedule(subject, adjusted_hours, scenario,
                                                  TieOf(fp, daily_hours, adjusted_hours)),
        focus_areas   |-> get_daily_focus_areas(subject, day, scenario, selected_topics) ]

\* The loop over enumerate(days): the dict after the first n iterations
RECURSIVE DailySchedules(_, _, _, _, _, _, _)
DailySchedules(subject, daily_hours, scenario, start_date, selected_topics, fp, n) ==
  IF n = 0 THEN << >>
  ELSE DictSet(DailySchedules(subject, daily_hours, scenario, start_date,
                              selected_topics, fp, n - 1),
               Days[n],
               DayEntry(subject, daily_hours, scenario, start_date,
                        selected_topics, fp, n - 1))

\* Mutant of WeeklyPlanFrom: the weekly total and the weekly distribution
\* follow the adjusted hours of the days
WeeklyPlanFromAdjustedTotal(subject, daily_hours, scenario, start_date, selected_topics, fp) ==
  [ subject            |-> subject,
    scenario           |-> scenario,
    daily_hours        |-> daily_hours,
    total_weekly_hours |-> 5 * daily_hours
                            + 2 * AdjustedHours(daily_hours, scenario, "Saturday"),
    start_date         |-> isoformat(start_date),
    time_distribution  |-> calculate_time_distribution(subject,
                            5 * daily_hours + 2 * AdjustedHours(daily_hours, scenario, "Saturday"),
                                                       scenario, fp.week),
    selected_topics    |-> selected_topics,
    daily_schedules    |-> DailySchedules(subject, daily_hours, scenario, start_date,
                                          selected_topics, fp, Len(Days)) ]

\* The plan for a start date that is a date object (lines 261-295)
WeeklyPlanFrom(subject, daily_hours, scenario, start_date, selected_topics, fp) ==
  [ subject            |-> subject,
    scenario           |-> scenario,
    daily_hours        |-> daily_hours,
    total_weekly_hours |-> daily_hours * 7,
    start_date         |-> isoformat(start_date),
    time_distribution  |-> calculate_time_distribution(subject, daily_hours * 7,
                                                       scenario, fp.week),
    selected_topics    |-> selected_topics,
    daily_schedules    |-> DailySchedules(subject, daily_hours, scenario, start_date,
                                          selected_topics, fp, Len(Days)) ]

\* start_date is given as a string and parsed first (lines 258-259)
create_weekly_plan(subject, daily_hours, scenario, start_date, selected_topics, fp) ==
  WeeklyPlanFrom(subject, daily_hours, scenario, strptime(start_date),
                 selected_topics, fp)

\* ------------------------------------------ generate_study_recommendations
Tip(kind, key, idx) == [kind |-> kind, key |-> key, idx |-> idx]

\* Mutant of BaseTips: no fallback to the general_study tips
BaseTipsNoFallback(scenario) == [i \in 1..5 |-> Tip("scenario", scenario, i)]

\* The five fixed tips of a scenario branch, in their order
BaseTips(scenario) ==
  LET branch == IF scenario \in {"exam_prep", "homework", "project_work"}
                  THEN scenario ELSE "general_study"
  IN  [i \in 1..5 |-> Tip("scenario", branch, i)]

\* Mutant of HoursTips: the chunking tip is given from 4 hours on
HoursTipsChunkingFromFour(available_hours) ==
  IF available_hours < 100 THEN << Tip("hours", "increase_study_time", 1) >>
  ELSE IF available_hours >= 400 THEN << Tip("hours", "chunking_90_minutes", 1) >>
  ELSE IF available_hours >= 200 THEN << Tip("hours", "pomodoro", 1) >>
  ELSE << >>

HoursTips(available_hours) ==
  IF available_hours < 100 THEN << Tip("hours", "increase_study_time", 1) >>
  ELSE IF available_hours > 400 THEN << Tip("hours", "chunking_90_minutes", 1) >>
  ELSE IF available_hours >= 200 THEN << Tip("hours", "pomodoro", 1) >>
  ELSE << >>

\* Subjects with a pool of four subject-specific tips
subject_tips ==
  {"Mathematics", "Physics", "Chemistry", "Biology", "Computer Science",
   "English", "History"}

PoolSize == 4

\* Mutant of Samples: the draw is made with replacement
SamplesWithReplacement == (1..PoolSize) \X (1..PoolSize)

\* The outcomes of random.sample(pool, 2): ordered pairs of distinct indices
Samples == {s \in (1..PoolSize) \X (1..PoolSize) : s[1] # s[2]}

\* random.sample is called only for a subject with a pool
SamplesFor(subject) == IF subject \in subject_tips THEN Samples ELSE {<< >>}

Take(s, n) == SubSeq(s, 1, Min(n, Len(s)))

\* Mutant of generate_study_recommendations: the list is put in the order of
\* the draw before it is cut
RecommendationsInDrawOrder(subject, available_hours, scenario, sample) ==
  LET subject_part == IF subject \in subject_tips
                        THEN << Tip("subject", subject, sample[1]),
                                Tip("subject", subject, sample[2]) >>
                        ELSE << >>
      recommendations ==
        IF subject \in subject_tips /\ sample[1] > sample[2]
          THEN BaseTips(scenario) \o subject_part \o HoursTips(available_hours)
          ELSE BaseTips(scenario) \o HoursTips(available_hours) \o subject_part
  IN  Take(recommendations, 7)

generate_study_recommendations(subject, available_hours, scenario, sample) ==
  LET recommendations ==
        BaseTips(scenario) \o HoursTips(available_hours)
        \o (IF subject \in subject_tips
              THEN << Tip("subject", subject, sample[1]),
                      Tip("subject", subject, sample[2]) >>
              ELSE << >>)
  IN  Take(recommendations, 7)

\* ----------------------------------------------- create_comprehensive_plan
RECURSIVE SumSeq(_)
SumSeq(s) == IF s = << >> THEN 0 ELSE Head(s) + SumSeq(Tail(s))

\* sum(activity['duration'] for activity in schedule if activity['activity'] == name)
DurationOf(schedule, name) ==
  SumSeq([j \in 1..Len(schedule) |->
            IF schedule[j].activity = name THEN schedule[j].duration ELSE 0])

TotalReading(daily_schedules) ==
  SumSeq([i \in 1..Len(daily_schedules) |->
            LET schedule == daily_schedules[i].value.schedule
            IN  IF schedule # << >> /\ schedule[1].activity = "Reading"
                  THEN schedule[1].duration ELSE 0])

TotalPractice(daily_schedules) ==
  SumSeq([i \in 1..Len(daily_schedules) |->
            DurationOf(daily_schedules[i].value.schedule, "Practice")])

TotalRevision(daily_schedules) ==
  SumSeq([i \in 1..Len(daily_schedules) |->
            DurationOf(daily_schedules[i].value.schedule, "Revision")])

Summary(daily_schedules) ==
  LET total_reading  == TotalReading(daily_schedules)
      total_practice == TotalPractice(daily_schedules)
      total_revision == TotalRevision(daily_schedules)
      total == total_reading + total_practice + total_revision
  IN  [ total_study_hours   |-> Round1(total, 1, FALSE),
        reading_hours       |-> Round1(total_reading, 1, FALSE),
        practice_hours      |-> Round1(total_practice, 1, FALSE),
        revision_hours      |-> Round1(total_revision, 1, FALSE),
        average_daily_hours |-> Round1(total, 7, FALSE) ]

\* The plan of create_weekly_plan with the keys create_comprehensive_plan adds
Comprehensive(weekly_plan, subject, daily_hours, scenario, selected_topics, sample) ==
  weekly_plan @@
  [ recommendations |-> generate_study_recommendations(subject, daily_hours,
                                                       scenario, sample),
    \* the key topics_count is set only for a non-empty selected_topics
    topics_count    |-> IF selected_topics # << >>
                          THEN << Len(selected_topics) >> ELSE << >>,
    summary         |-> Summary(weekly_plan.daily_schedules) ]

create_comprehensive_plan(subject, daily_hours, scenario, start_date, selected_topics, fp, sample) ==
  Comprehensive(create_weekly_plan(subject, daily_hours, scenario, start_date,
                                   selected_topics, fp),
                subject, daily_hours, scenario, selected_topics, sample)

\* ---------------------------------------------------- save_study_plan_csv
\* A text is the sequence of its pieces: a comma, a double quote and a line
\* feed are pieces of their own, a run of other characters is one piece.
Comma == ","
Quote == "\""
LineFeed == "\n"

\* A subject that holds a comma, double quotes and a line feed
SpecialSubject == "Art, \"Design\"\n2"

\* The pieces of a string of the program or of the input
Pieces(str) ==
  IF str = "Short break - stretch, hydrate"
    THEN <<"Short break - stretch", Comma, " hydrate">>
  ELSE IF str = SpecialSubject
    THEN <<"Art", Comma, " ", Quote, "Design", Quote, LineFeed, "2">>
  ELSE IF str = "" THEN << >>
  ELSE << str >>

\* The text of a sequence of strings written one after the other
RECURSIVE TextOf(_)
TextOf(strs) ==
  IF strs = << >> THEN << >> ELSE Pieces(Head(strs)) \o TextOf(Tail(strs))

\* separator.join(texts)
RECURSIVE Join(_, _)
Join(texts, separator) ==
  IF texts = << >> THEN << >>
  ELSE IF Len(texts) = 1 THEN texts[1]
  ELSE texts[1] \o separator \o Join(Tail(texts), separator)

\* str(n) for an integer n >= 0
RECURSIVE IntText(_)
IntText(n) ==
  IF n < 10 THEN << DigitChars[n + 1] >>
  ELSE Append(IntText(n \div 10), DigitChars[(n % 10) + 1])

\* repr(x) of the float x >= 0 given in hundredths: '1.0', '0.25', '1.5'
FloatText(x) ==
  IntText(x \div 100) \o <<".">>
    \o (IF x % 10 = 0 THEN << DigitChars[((x % 100) \div 10) + 1] >>
                      ELSE << DigitChars[((x % 100) \div 10) + 1],
                              DigitChars[(x % 10) + 1] >>)

Columns ==
  <<"Day", "Date", "Activity_Order", "Activity", "Duration_Hours",
    "Description", "Tips", "Focus_Areas">>

\* One entry of csv_data, its values as texts in column order
CsvRow(day, day_data, i) ==
  LET activity == day_data.schedule[i + 1]
  IN  << Pieces(day),
         day_data.date,
         IntText(i + 1),
         Pieces(activity.activity),
         FloatText(activity.duration),
         TextOf(activity.description),
         Join([j \in 1..Len(activity.tips) |-> Pieces(activity.tips[j])], <<"; ">>),
         Join([j \in 1..Len(day_data.focus_areas) |-> Pieces(day_data.focus_areas[j])],
              <<"; ">>) >>

\* The rows of one day
DayRows(day, day_data) ==
  [i \in 1..Len(day_data.schedule) |-> CsvRow(day, day_data, i - 1)]

\* csv_data: the rows of the first n days of the dict, in its order
RECURSIVE CsvData(_, _)
CsvData(daily_schedules, n) ==
  IF n = 0 THEN << >>
  ELSE CsvData(daily_schedules, n - 1)
         \o DayRows(daily_schedules[n].key, daily_schedules[n].value)

\* Mutant of CsvField: no field is quoted
CsvFieldUnquoted(text) == text

\* A field as the csv writer emits it (QUOTE_MINIMAL, doublequote): quoted
\* when it holds a comma, a double quote or a line feed, with every double
\* quote doubled
CsvField(text) ==
  IF \E j \in 1..Len(text) : text[j] \in {Comma, Quote, LineFeed}
    THEN <<Quote>>
         \o Join([j \in 1..Len(text) |->
                    IF text[j] = Quote THEN <<Quote, Quote>> ELSE << text[j] >>], << >>)
         \o <<Quote>>
    ELSE text

\* One line of the file
CsvLine(fields) ==
  Join([j \in 1..Len(fields) |-> CsvField(fields[j])], <<Comma>>) \o <<LineFeed>>

\* DataFrame(csv_data).to_csv(filename, index=False): the header line and one
\* line per row; a frame without rows has no columns and gives one empty line
to_csv(csv_data) ==
  IF csv_data = << >> THEN <<LineFeed>>
  ELSE CsvLine([j \in 1..Len(Columns) |-> Pieces(Columns[j])])
         \o Join([i \in 1..Len(csv_data) |-> CsvLine(csv_data[i])], << >>)

\* The file name built for filename = None
DefaultFilename(weekly_plan, timestamp) ==
  <<"outputs/study_plan_">> \o Pieces(weekly_plan.subject)
    \o <<"_", timestamp, ".csv">>

\* What the file system does with the one os.makedirs and the one to_csv call
IoOutcomes == {"written", "makedirs_raises", "open_raises", "write_raises"}

\* The files after the call: a write that fails after the file was opened
\* leaves the file truncated
FilesAfterSave(fs, filename, text, io) ==
  IF io = "written" THEN (filename :> text) @@ fs
  ELSE IF io = "write_raises" THEN (filename :> << >>) @@ fs
  ELSE fs

\* The I/O calls of one save_study_plan_csv call
IoCallsOfSave(filename, io) ==
  << [call |-> "makedirs", filename |-> filename, ok |-> io # "makedirs_raises"] >>
  \o (IF io = "makedirs_raises" THEN << >>
       ELSE << [call |-> "to_csv", filename |-> filename, ok |-> io = "written"] >>)

\* Mutant of SaveResult: a failure of the file system is swallowed
SaveResultSwallowed(filename, io) == [returned |-> filename]

\* The value save_study_plan_csv returns, or the exception it raises
SaveResult(filename, io) ==
  IF io = "written" THEN [returned |-> filename]
  ELSE [raised |-> "OSError"]

\* ============================================================ state machine
\* A caller makes one call of one planner operation, with arguments drawn
\* from the input sets below.
VARIABLES
  pc,          \* "ready", or the name of the operation that has returned
  args,        \* the arguments of the call
  ret,         \* the value the call returned
  files,       \* the files written: file name -> text
  io_calls,    \* the file system calls made, in order
  app_results, \* the module-level dict of the web application
  threads,     \* the request each server thread is handling, and where it is
  requests,    \* the number of requests received
  planner,     \* the attributes of the StudyPlanner object
  caller_topics, \* the list object the caller passes as selected_topics
  returned,    \* the objects the calls have returned to the caller, in order
  plan_request \* history: the request that stored app_results['study_plan']

vars == << pc, args, ret, files, io_calls, app_results, threads, requests,
           planner, caller_topics, returned, plan_request >>

\* StudyPlanner(): the attributes __init__ sets
PlannerInitial ==
  [ subject_complexity |-> subject_complexity,
    scenario_adjustments |-> scenario_adjustments ]

\* None
None == << >>

\* A value that is not None
Some(v) == << v >>

\* app_results as the module creates it
AppResultsInitial ==
  [ last_subject |-> None, last_hours |-> None, study_plan |-> None,
    quiz |-> None, summary |-> None, tips |-> None, feedback |-> None ]

\* The server threads
Threads == 1..MaxThreads

\* A thread that handles no request
IdleThread == [handler |-> "idle", pc |-> "idle"]

UnknownSubjects == {SpecialSubject, "mathematics"}
Subjects == DOMAIN subject_complexity \cup UnknownSubjects

UnknownScenarios == {"custom"}
Scenarios == DOMAIN scenario_adjustments \cup UnknownScenarios

\* Hours of the usage example (3 h), at and just above the 4 h threshold and
\* the maximum the web form accepts (12 h)
ConcreteHours == {300, 400, 410, 1200}

HoursValues == {10 * t : t \in (0 - NegTenths)..MaxTenths} \cup ConcreteHours

\* "2024-01-15", the start date of the usage example
StartDate20240115 == <<"2", "0", "2", "4", "-", "0", "1", "-", "1", "5">>

\* The string YYYY-MM-DD of a year, month and day
DateString(y, m, d) == isoformat([year |-> y, month |-> m, day |-> d])

\* Start dates whose week crosses the end of February in a leap year, in a
\* common year, in 2100 and in 2000, the end of a 30-day month and the end of
\* a year
OtherStartDates ==
  { DateString(2024, 2, 26), DateString(2023, 2, 25), DateString(2100, 2, 25),
    DateString(2000, 2, 27), DateString(2024, 4, 28), DateString(2023, 12, 28),
    DateString(2024, 12, 31) }

\* The plans of every hours value are built for the start date of the usage
\* example, the plans of the usage example's hours for every start date
StartDates(h) ==
  IF h = 300 THEN {StartDate20240115} \cup OtherStartDates ELSE {StartDate20240115}

TopicList(n) == [i \in 1..n |-> ToString(i)]
TopicLists == {TopicList(n) : n \in 0..MaxTopics}
FocusTopicLists == {TopicList(n) : n \in 0..MaxFocusTopics}

\* The hours create_weekly_plan passes for Saturday and Sunday
WeekendHours(h, sc) == AdjustedHours(h, sc, "Saturday")

\* The tie directions open for one plan
FpChoices(s, h, sc) ==
  [ day     : TieChoices(s, h, sc),
    wkend   : IF WeekendHours(h, sc) = h THEN {NoTies}
              ELSE TieChoices(s, WeekendHours(h, sc), sc),
    week    : TieChoices(s, 7 * h, sc),
    planned : IF IsTie(WeekendHours(h, sc), 1, 10) THEN BOOLEAN ELSE {FALSE} ]

\* The totals a direct call is given: daily hours, the weekend hours of the
\* weekly composer and the weekly total
TotalsOf(h, sc) == {h, WeekendHours(h, sc), 7 * h}

\* The float a total is given as lies above or below the decimal value; the
\* side matters only where the decimal value is a tie of round(total_hours, 1)
InputSides(total_hours) == IF IsTie(total_hours, 1, 10) THEN BOOLEAN ELSE {FALSE}

\* strftime('%Y%m%d_%H%M%S') of the time of the call
Timestamps == {"20240115_093000"}

Init ==
  /\ pc = "ready"
  /\ args = << >>
  /\ ret = << >>
  /\ files = << >>
  /\ io_calls = << >>
  /\ app_results = AppResultsInitial
  /\ threads = [t \in Threads |-> IdleThread]
  /\ requests = 0
  /\ planner = PlannerInitial
  /\ caller_topics = TopicList(MaxTopics)
  /\ returned = << >>
  /\ plan_request = 0

CalculateTimeDistribution ==
  /\ pc = "ready"
  /\ \E s \in Subjects, sc \in Scenarios, h \in HoursValues :
       \E total \in TotalsOf(h, sc) :
         \E tie \in TieChoices(s, total, sc), above \in InputSides(total) :
           /\ args' = [subject |-> s, total_hours |-> total, scenario |-> sc, tie |-> tie,
                       above |-> above]
           /\ ret' = calculate_time_distribution(s, total, sc, tie)
  /\ pc' = "calculate_time_distribution"
  /\ UNCHANGED << files, io_calls, app_results, threads, requests, planner, caller_topics, returned, plan_request >>

GenerateDailySchedule ==
  /\ pc = "ready"
  /\ \E s \in Subjects, sc \in Scenarios, h \in HoursValues :
       \E hours \in {h, WeekendHours(h, sc)} :
         \E tie \in TieChoices(s, hours, sc) :
           /\ args' = [subject |-> s, daily_hours |-> hours, scenario |-> sc, tie |-> tie]
           /\ ret' = generate_daily_schedule(s, hours, sc, tie)
  /\ pc' = "generate_daily_schedule"
  /\ UNCHANGED << files, io_calls, app_results, threads, requests, planner, caller_topics, returned, plan_request >>

GetDailyFocusAreas ==
  /\ pc = "ready"
  /\ \E s \in Subjects, sc \in Scenarios, topics \in FocusTopicLists :
       \E i \in 1..Len(Days) :
         /\ args' = [subject |-> s, day |-> Days[i], scenario |-> sc,
                     selected_topics |-> topics]
         /\ ret' = get_daily_focus_areas(s, Days[i], sc, topics)
  /\ pc' = "get_daily_focus_areas"
  /\ UNCHANGED << files, io_calls, app_results, threads, requests, planner, caller_topics, returned, plan_request >>

CreateWeeklyPlan ==
  /\ pc = "ready"
  /\ \E s \in Subjects, sc \in Scenarios, h \in HoursValues, topics \in TopicLists :
       \E d \in StartDates(h), f \in FpChoices(s, h, sc) :
         /\ args' = [subject |-> s, daily_hours |-> h, scenario |-> sc,
                     start_date |-> d, selected_topics |-> topics, fp |-> f]
         /\ ret' = create_weekly_plan(s, h, sc, d, topics, f)
  /\ pc' = "create_weekly_plan"
  /\ UNCHANGED << files, io_calls, app_results, threads, requests, planner, caller_topics, returned, plan_request >>

GenerateStudyRecommendations ==
  /\ pc = "ready"
  /\ \E s \in Subjects, sc \in Scenarios, h \in HoursValues :
       \E sample \in SamplesFor(s) :
         /\ args' = [subject |-> s, available_hours |-> h, scenario |-> sc,
                     sample |-> sample]
         /\ ret' = generate_study_recommendations(s, h, sc, sample)
  /\ pc' = "generate_study_recommendations"
  /\ UNCHANGED << files, io_calls, app_results, threads, requests, planner, caller_topics, returned, plan_request >>

CreateComprehensivePlan ==
  /\ pc = "ready"
  /\ \E s \in Subjects, sc \in Scenarios, h \in HoursValues, topics \in TopicLists :
       \E d \in StartDates(h), f \in FpChoices(s, h, sc) :
         \E weekly_plan \in {create_weekly_plan(s, h, sc, d, topics, f)} :
           \E sample \in SamplesFor(s) :
             /\ args' = [subject |-> s, daily_hours |-> h, scenario |-> sc,
                         start_date |-> d, selected_topics |-> topics, fp |-> f,
                         sample |-> sample]
             /\ ret' = Comprehensive(weekly_plan, s, h, sc, topics, sample)
  /\ pc' = "create_comprehensive_plan"
  /\ UNCHANGED << files, io_calls, app_results, threads, requests, planner, caller_topics, returned, plan_request >>

\* save_study_plan_csv(weekly_plan) with filename = None
SaveStudyPlanCsv ==
  /\ pc = "ready"
  /\ \E s \in Subjects, sc \in Scenarios, h \in HoursValues, topics \in TopicLists :
       \E d \in StartDates(h), f \in FpChoices(s, h, sc), timestamp \in Timestamps :
         \E weekly_plan \in {create_weekly_plan(s, h, sc, d, topics, f)} :
           \E filename \in {DefaultFilename(weekly_plan, timestamp)},
              text \in {to_csv(CsvData(weekly_plan.daily_schedules,
                                       Len(weekly_plan.daily_schedules)))} :
             \E io \in IoOutcomes :
               /\ args' = [weekly_plan |-> weekly_plan]
               /\ files' = FilesAfterSave(files, filename, text, io)
               /\ io_calls' = io_calls \o IoCallsOfSave(filename, io)
               /\ ret' = SaveResult(filename, io)
  /\ pc' = "save_study_plan_csv"
  /\ UNCHANGED << app_results, threads, requests, planner, caller_topics, returned, plan_request >>

Next ==
  \/ CalculateTimeDistribution
  \/ GenerateDailySchedule
  \/ GetDailyFocusAreas
  \/ CreateWeeklyPlan
  \/ GenerateStudyRecommendations
  \/ CreateComprehensivePlan

Spec == Init /\ [][Next]_vars

\* ------------------------------------------------ saving a plan
\* A caller saves one plan
NextCsv == SaveStudyPlanCsv

SpecCsv == Init /\ [][NextCsv]_vars

\* ------------------------------------------------ a second, equal call
\* The planner operations
Operations ==
  {"calculate_time_distribution", "generate_daily_schedule", "get_daily_focus_areas",
   "create_weekly_plan", "generate_study_recommendations", "create_comprehensive_plan"}

\* The operations that call random.sample
SamplingOperations == {"generate_study_recommendations", "create_comprehensive_plan"}

\* The hours a repeated call is made with
RepeatHours == {50 * k : k \in 0..MaxRepeatHalves} \cup ConcreteHours

\* The hours argument of a call
HoursArgument(op, a) ==
  CASE op = "calculate_time_distribution" -> a.total_hours
    [] op = "generate_study_recommendations" -> a.available_hours
    [] OTHER -> a.daily_hours

\* The value operation op returns for the arguments a: the float arithmetic
\* is deterministic, so the tie directions are those of the first call; the
\* random generator has moved on, so the sample is a new draw
Call(op, a, sample) ==
  CASE op = "calculate_time_distribution" ->
         calculate_time_distribution(a.subject, a.total_hours, a.scenario, a.tie)
    [] op = "generate_daily_schedule" ->
         generate_daily_schedule(a.subject, a.daily_hours, a.scenario, a.tie)
    [] op = "get_daily_focus_areas" ->
         get_daily_focus_areas(a.subject, a.day, a.scenario, a.selected_topics)
    [] op = "create_weekly_plan" ->
         create_weekly_plan(a.subject, a.daily_hours, a.scenario, a.start_date,
                            a.selected_topics, a.fp)
    [] op = "generate_study_recommendations" ->
         generate_study_recommendations(a.subject, a.available_hours, a.scenario, sample)

\* The caller repeats the call that has returned, on the same StudyPlanner
\* and with equal arguments
Repeat ==
  /\ pc \in Operations
  /\ IF pc = "get_daily_focus_areas" THEN TRUE
                                      ELSE HoursArgument(pc, args) \in RepeatHours
  /\ \E weekly_plan \in {IF pc = "create_comprehensive_plan"
                            THEN create_weekly_plan(args.subject, args.daily_hours,
                                                    args.scenario, args.start_date,
                                                    args.selected_topics, args.fp)
                            ELSE << >>} :
       \E sample \in (IF pc \in SamplingOperations THEN SamplesFor(args.subject)
                                                  ELSE {<< >>}) :
         /\ args' = [op |-> pc, args |-> args, first |-> ret, sample |-> sample]
         /\ ret' = IF pc = "create_comprehensive_plan"
                     THEN Comprehensive(weekly_plan, args.subject, args.daily_hours,
                                        args.scenario, args.selected_topics, sample)
                     ELSE Call(pc, args, sample)
  /\ pc' = "repeat"
  /\ UNCHANGED << files, io_calls, app_results, threads, requests, planner, caller_topics, returned, plan_request >>

NextRepeat ==
  \/ Next
  \/ Repeat

SpecRepeat == Init /\ [][NextRepeat]_vars

\* ------------------------------------------------ a sequence of calls
\* A caller makes up to MaxCalls calls on one StudyPlanner, passing its one
\* list object as selected_topics or passing None, and keeps what the calls
\* return.

\* Mutant of PlannerAfterCall: the scenario is looked up with setdefault, which
\* enters an unknown scenario into the table
PlannerAfterSetdefault(op, a, self) ==
  IF op \in {"get_daily_focus_areas"} \/ a.scenario \in DOMAIN self.scenario_adjustments
    THEN self
    ELSE [self EXCEPT !.scenario_adjustments =
            (a.scenario :> self.scenario_adjustments["general_study"]) @@ @]

\* The attributes of the planner after a call: no method assigns to self, and
\* the tables are only read (subject_complexity[subject], .get(scenario, ...))
PlannerAfterCall(op, a, self) == self

\* The caller's list after a call: the methods take len() and slices of
\* selected_topics and store the reference in the plan, nothing else
TopicsAfterCall(op, a, topics) == topics

\* The plan operations store the caller's list itself in the plan when it is
\* not empty (`selected_topics or []`, weekly_plan['selected_topics'] = ...)
SharesTopics(op, a) ==
  op \in {"create_weekly_plan", "create_comprehensive_plan"} /\ a.selected_topics # << >>

\* The objects the caller holds after a call returned value: every method
\* returns an object it has built itself during the call
ReturnedAfterCall(op, a, objects, value) ==
  Append(objects, [op |-> op, value |-> value, shares_topics |-> SharesTopics(op, a)])

\* The inputs of the calls of a sequence
CallSubjects == {"Mathematics"}
CallScenarios == {"exam_prep", "custom"}
CallHours == {300}
CallDays == {"Monday", "Sunday"}
CallSample == <<1, 2>>

\* selected_topics is the caller's list or None
CallTopics == {caller_topics, << >>}

\* The tie directions of the float arithmetic for a call
CallTie(s, h, sc) == CHOOSE tie \in TieChoices(s, h, sc) : TRUE
CallFp(s, h, sc) == CHOOSE fp \in FpChoices(s, h, sc) : TRUE

CallCalculateTimeDistribution ==
  /\ Len(returned) < MaxCalls
  /\ \E s \in CallSubjects, sc \in CallScenarios, h \in CallHours :
       \E a \in {[subject |-> s, total_hours |-> h, scenario |-> sc,
                  tie |-> CallTie(s, h, sc), sample |-> << >>]} :
         \E value \in {calculate_time_distribution(s, h, sc, a.tie)} :
           /\ args' = a
           /\ ret' = value
           /\ planner' = PlannerAfterCall("calculate_time_distribution", a, planner)
           /\ caller_topics' = TopicsAfterCall("calculate_time_distribution", a, caller_topics)
           /\ returned' = ReturnedAfterCall("calculate_time_distribution", a, returned, value)
  /\ pc' = "calculate_time_distribution"
  /\ UNCHANGED << files, io_calls, app_results, threads, requests, plan_request >>

CallGenerateDailySchedule ==
  /\ Len(returned) < MaxCalls
  /\ \E s \in CallSubjects, sc \in CallScenarios, h \in CallHours :
       \E a \in {[subject |-> s, daily_hours |-> h, scenario |-> sc,
                  tie |-> CallTie(s, h, sc), sample |-> << >>]} :
         \E value \in {generate_daily_schedule(s, h, sc, a.tie)} :
           /\ args' = a
           /\ ret' = value
           /\ planner' = PlannerAfterCall("generate_daily_schedule", a, planner)
           /\ caller_topics' = TopicsAfterCall("generate_daily_schedule", a, caller_topics)
           /\ returned' = ReturnedAfterCall("generate_daily_schedule", a, returned, value)
  /\ pc' = "generate_daily_schedule"
  /\ UNCHANGED << files, io_calls, app_results, threads, requests, plan_request >>

CallGetDailyFocusAreas ==
  /\ Len(returned) < MaxCalls
  /\ \E s \in CallSubjects, sc \in CallScenarios, day \in CallDays, topics \in CallTopics :
       \E a \in {[subject |-> s, day |-> day, scenario |-> sc,
                  selected_topics |-> topics, sample |-> << >>]} :
         \E value \in {get_daily_focus_areas(s, day, sc, topics)} :
           /\ args' = a
           /\ ret' = value
           /\ planner' = PlannerAfterCall("get_daily_focus_areas", a, planner)
           /\ caller_topics' = TopicsAfterCall("get_daily_focus_areas", a, caller_topics)
           /\ returned' = ReturnedAfterCall("get_daily_focus_areas", a, returned, value)
  /\ pc' = "get_daily_focus_areas"
  /\ UNCHANGED << files, io_calls, app_results, threads, requests, plan_request >>

CallCreateWeeklyPlan ==
  /\ Len(returned) < MaxCalls
  /\ \E s \in CallSubjects, sc \in CallScenarios, h \in CallHours, topics \in CallTopics :
       \E a \in {[subject |-> s, daily_hours |-> h, scenario |-> sc,
                  start_date |-> StartDate20240115, selected_topics |-> topics,
                  fp |-> CallFp(s, h, sc), sample |-> << >>]} :
         \E value \in {create_weekly_plan(s, h, sc, a.start_date, topics, a.fp)} :
           /\ args' = a
           /\ ret' = value
           /\ planner' = PlannerAfterCall("create_weekly_plan", a, planner)
           /\ caller_topics' = TopicsAfterCall("create_weekly_plan", a, caller_topics)
           /\ returned' = ReturnedAfterCall("create_weekly_plan", a, returned, value)
  /\ pc' = "create_weekly_plan"
  /\ UNCHANGED << files, io_calls, app_results, threads, requests, plan_request >>

CallGenerateStudyRecommendations ==
  /\ Len(returned) < MaxCalls
  /\ \E s \in CallSubjects, sc \in CallScenarios, h \in CallHours :
       \E a \in {[subject |-> s, available_hours |-> h, scenario |-> sc,
                  sample |-> CallSample]} :
         \E value \in {generate_study_recommendations(s, h, sc, a.sample)} :
           /\ args' = a
           /\ ret' = value
           /\ planner' = PlannerAfterCall("generate_study_recommendations", a, planner)
           /\ caller_topics' = TopicsAfterCall("generate_study_recommendations", a, caller_topics)
           /\ returned' = ReturnedAfterCall("generate_study_recommendations", a, returned, value)
  /\ pc' = "generate_study_recommendations"
  /\ UNCHANGED << files, io_calls, app_results, threads, requests, plan_request >>

CallCreateComprehensivePlan ==
  /\ Len(returned) < MaxCalls
  /\ \E s \in CallSubjects, sc \in CallScenarios, h \in CallHours, topics \in CallTopics :
       \E a \in {[subject |-> s, daily_hours |-> h, scenario |-> sc,
                  start_date |-> StartDate20240115, selected_topics |-> topics,
                  fp |-> CallFp(s, h, sc), sample |-> CallSample]} :
         \E value \in {create_comprehensive_plan(s, h, sc, a.start_date, topics,
                                                     a.fp, a.sample)} :
           /\ args' = a
           /\ ret' = value
           /\ planner' = PlannerAfterCall("create_comprehensive_plan", a, planner)
           /\ caller_topics' = TopicsAfterCall("create_comprehensive_plan", a, caller_topics)
           /\ returned' = ReturnedAfterCall("create_comprehensive_plan", a, returned, value)
  /\ pc' = "create_comprehensive_plan"
  /\ UNCHANGED << files, io_calls, app_results, threads, requests, plan_request >>

NextCalls ==
  \/ CallCalculateTimeDistribution
  \/ CallGenerateDailySchedule
  \/ CallGetDailyFocusAreas
  \/ CallCreateWeeklyPlan
  \/ CallGenerateStudyRecommendations
  \/ CallCreateComprehensivePlan

SpecCalls == Init /\ [][NextCalls]_vars

\* ============================================================ the web application
\* The Flask application of web_app/app.py: every request is handled by a
\* server thread, and the handlers share app_results, the planner and the
\* file system.  A handler is a sequence of steps; a step is one access to
\* the shared state together with the thread-local computation before it.

\* str.strip() of a text whose white space is the blank
RECURSIVE lstrip(_)
lstrip(text) ==
  IF text # << >> /\ Head(text) = " " THEN lstrip(Tail(text)) ELSE text

RECURSIVE rstrip(_)
rstrip(text) ==
  IF text # << >> /\ text[Len(text)] = " "
    THEN rstrip(SubSeq(text, 1, Len(text) - 1))
    ELSE text

strip(text) == rstrip(lstrip(text))

\* The subjects a form names
WebSubjects == {"mathematics"}

\* The string with the given pieces
StringOf(text) ==
  IF text = << >> THEN "" ELSE CHOOSE str \in WebSubjects : Pieces(str) = text

\* float(text) for a text of a sign, digits and at most two decimals, 'nan' or
\* 'inf': the number in hundredths, or not a number, or an infinity; any
\* other text here raises ValueError
float(text) ==
  LET t        == strip(text)
      signed   == t # << >> /\ t[1] \in {"-", "+"}
      negative == t # << >> /\ t[1] = "-"
      body     == IF signed THEN Tail(t) ELSE t
      dots     == {j \in 1..Len(body) : body[j] = "."}
      dot      == IF dots = {} THEN Len(body) + 1 ELSE CHOOSE j \in dots : TRUE
      whole    == SubSeq(body, 1, dot - 1)
      frac     == SubSeq(body, dot + 1, Len(body))
      digits(x) == \A j \in 1..Len(x) : \E k \in 1..Len(DigitChars) : x[j] = DigitChars[k]
      magnitude == 100 * ParseInt(whole)
                     + (IF Len(frac) = 1 THEN 10 * ParseInt(frac) ELSE ParseInt(frac))
  IN  IF body = <<"n", "a", "n">> THEN [kind |-> "nan"]
      ELSE IF body = <<"i", "n", "f">> THEN [kind |-> "inf", negative |-> negative]
      ELSE IF /\ Cardinality(dots) <= 1
              /\ digits(whole) /\ digits(frac)
              /\ Len(whole) + Len(frac) > 0
              /\ Len(frac) <= 2
        THEN [kind |-> "value",
              value |-> IF negative THEN 0 - magnitude ELSE magnitude]
      ELSE [kind |-> "raised", exception |-> "ValueError"]

\* study_hours <= 0 or study_hours > 12: every comparison with nan is False
HoursRejected(study_hours) ==
  IF study_hours.kind = "nan" THEN FALSE
  ELSE IF study_hours.kind = "inf" THEN TRUE
  ELSE study_hours.value <= 0 \/ study_hours.value > 1200

\* jsonify({'error': error}), status
ErrorResponse(status, error) == [status |-> status, error |-> error]

\* redirect(url_for(endpoint))
Redirect(endpoint) == [status |-> 302, location |-> endpoint]

\* The values of the form fields subject and study_hours
FormSubjects == { << >>, <<" ">>, <<" ", "mathematics">> }

FormHours ==
  { <<"-", "1">>, <<"0">>, <<"0", ".", "3">>, <<"3">>, <<"1", "2", ".", "5">>,
    <<"n", "a", "n">>, <<"a", "b", "c">> }

Forms == [subject : FormSubjects, study_hours : FormHours]

\* datetime.now().date() of a plan made without start_date
Today == strptime(StartDate20240115)

\* What a call into one of the other modules does
ModuleOutcomes == {"returns", "raises"}

\* The thread of a handler that has returned
Returned(thread, response) ==
  [thread EXCEPT !.pc = "done"] @@ [response |-> response]

\* The thread after the statement that leads to next_pc
Goto(thread, next_pc) == [thread EXCEPT !.pc = next_pc]

\* The thread after an assignment to app_results[key]
Stored(thread, key, next_pc) ==
  [thread EXCEPT !.pc = next_pc, !.stores = Append(@, key)]

\* The except clause of process_study_request
ProcessFailed(thread) ==
  Returned(thread, ErrorResponse(500, "Error processing request"))

\* A thread may take a request
Free(t) == threads[t].pc \in {"idle", "done"} /\ requests < MaxRequests

\* process_study_request, lines 53-62: the form is read and validated
ProcessStudyRequest ==
  \E t \in Threads, form \in Forms :
    /\ Free(t)
    /\ requests' = requests + 1
    /\ LET subject     == strip(form.subject)
           study_hours == float(form.study_hours)
           thread == [handler |-> "process_study_request", pc |-> "store_subject",
                      id |-> requests + 1, form |-> form,
                      subject |-> StringOf(subject), study_hours |-> study_hours,
                      scenario |-> "general_study", selected_topics |-> << >>,
                      planner_calls |-> 0, stores |-> << >>]
       IN  threads' = [threads EXCEPT ![t] =
             IF study_hours.kind = "raised" THEN ProcessFailed(thread)
             ELSE IF subject = << >>
               THEN Returned(thread, ErrorResponse(400, "Please enter a subject"))
             ELSE IF HoursRejected(study_hours)
               THEN Returned(thread,
                      ErrorResponse(400, "Study hours must be between 0.5 and 12"))
             ELSE thread]
    /\ UNCHANGED << pc, args, ret, files, io_calls, app_results, planner, caller_topics, returned, plan_request >>

\* line 66: app_results['last_subject'] = subject
StoreSubject ==
  \E t \in Threads :
    /\ threads[t].pc = "store_subject"
    /\ app_results' = [app_results EXCEPT !.last_subject = Some(threads[t].subject)]
    /\ threads' = [threads EXCEPT ![t] = Stored(@, "last_subject", "store_hours")]
    /\ UNCHANGED << pc, args, ret, files, io_calls, requests, planner, caller_topics, returned, plan_request >>

\* line 67: app_results['last_hours'] = study_hours
StoreHours ==
  \E t \in Threads :
    /\ threads[t].pc = "store_hours"
    /\ app_results' = [app_results EXCEPT !.last_hours = Some(threads[t].study_hours)]
    /\ threads' = [threads EXCEPT ![t] = Stored(@, "last_hours", "store_topics")]
    /\ UNCHANGED << pc, args, ret, files, io_calls, requests, planner, caller_topics, returned, plan_request >>

\* line 68: app_results['selected_topics'] = selected_topics, a new key of the dict
StoreTopics ==
  \E t \in Threads :
    /\ threads[t].pc = "store_topics"
    /\ app_results' = ("selected_topics" :> threads[t].selected_topics) @@ app_results
    /\ threads' = [threads EXCEPT ![t] = Stored(@, "selected_topics", "load_data")]
    /\ UNCHANGED << pc, args, ret, files, io_calls, requests, planner, caller_topics, returned, plan_request >>

\* lines 71-76: the calls into data_processor
LoadData ==
  \E t \in Threads, outcome \in ModuleOutcomes :
    /\ threads[t].pc = "load_data"
    /\ threads' = [threads EXCEPT ![t] =
         IF outcome = "raises" THEN ProcessFailed(@) ELSE Goto(@, "study_plan")]
    /\ UNCHANGED << pc, args, ret, files, io_calls, app_results, requests, planner, caller_topics, returned, plan_request >>

\* lines 79-85: create_comprehensive_plan is called and its plan is stored;
\* with nan hours round() raises ValueError in generate_daily_schedule (line 92)
StudyPlan ==
  \E t \in Threads :
    /\ threads[t].pc = "study_plan"
    /\ LET thread == [threads[t] EXCEPT !.planner_calls = @ + 1]
       IN  IF thread.study_hours.kind = "nan"
             THEN /\ threads' = [threads EXCEPT ![t] = ProcessFailed(thread)]
                  /\ UNCHANGED << app_results, plan_request >>
             ELSE \E fp \in FpChoices(thread.subject, thread.study_hours.value,
                                      thread.scenario),
                     sample \in SamplesFor(thread.subject) :
                    \E weekly_plan \in
                         {WeeklyPlanFrom(thread.subject, thread.study_hours.value,
                                         thread.scenario, Today,
                                         thread.selected_topics, fp)} :
                      /\ app_results' = [app_results EXCEPT !.study_plan =
                           Some(Comprehensive(weekly_plan, thread.subject,
                                              thread.study_hours.value, thread.scenario,
                                              thread.selected_topics, sample))]
                      /\ plan_request' = thread.id
                      /\ threads' = [threads EXCEPT ![t] =
                                       Stored(thread, "study_plan", "quiz")]
    /\ UNCHANGED << pc, args, ret, files, io_calls, requests, planner, caller_topics, returned >>

\* What another module makes for a request
Made(key, id) == [made |-> key, request |-> id]

\* lines 87-108: the quiz is generated and stored
Quiz ==
  \E t \in Threads, outcome \in ModuleOutcomes :
    /\ threads[t].pc = "quiz"
    /\ IF outcome = "raises"
         THEN /\ threads' = [threads EXCEPT ![t] = ProcessFailed(@)]
              /\ UNCHANGED app_results
         ELSE /\ app_results' = [app_results EXCEPT !.quiz = Some(Made("quiz", threads[t].id))]
              /\ threads' = [threads EXCEPT ![t] = Stored(@, "quiz", "summary")]
    /\ UNCHANGED << pc, args, ret, files, io_calls, requests, planner, caller_topics, returned, plan_request >>

\* lines 118-134: the summary is made and stored
SummaryText ==
  \E t \in Threads, outcome \in ModuleOutcomes :
    /\ threads[t].pc = "summary"
    /\ IF outcome = "raises"
         THEN /\ threads' = [threads EXCEPT ![t] = ProcessFailed(@)]
              /\ UNCHANGED app_results
         ELSE /\ app_results' = [app_results EXCEPT !.summary = Some(Made("summary", threads[t].id))]
              /\ threads' = [threads EXCEPT ![t] = Stored(@, "summary", "tips")]
    /\ UNCHANGED << pc, args, ret, files, io_calls, requests, planner, caller_topics, returned, plan_request >>

\* lines 136-142: the tips are generated and stored
Tips ==
  \E t \in Threads, outcome \in ModuleOutcomes :
    /\ threads[t].pc = "tips"
    /\ IF outcome = "raises"
         THEN /\ threads' = [threads EXCEPT ![t] = ProcessFailed(@)]
              /\ UNCHANGED app_results
         ELSE /\ app_results' = [app_results EXCEPT !.tips = Some(Made("tips", threads[t].id))]
              /\ threads' = [threads EXCEPT ![t] = Stored(@, "tips", "feedback")]
    /\ UNCHANGED << pc, args, ret, files, io_calls, requests, planner, caller_topics, returned, plan_request >>

\* lines 144-148: the feedback is generated and stored, and the handler
\* redirects to the results page
Feedback ==
  \E t \in Threads, outcome \in ModuleOutcomes :
    /\ threads[t].pc = "feedback"
    /\ IF outcome = "raises"
         THEN /\ threads' = [threads EXCEPT ![t] = ProcessFailed(@)]
              /\ UNCHANGED app_results
         ELSE /\ app_results' = [app_results EXCEPT !.feedback =
                                   Some(Made("feedback", threads[t].id))]
              /\ threads' = [threads EXCEPT ![t] =
                   Returned(Stored(@, "feedback", "done"), Redirect("results"))]
    /\ UNCHANGED << pc, args, ret, files, io_calls, requests, planner, caller_topics, returned, plan_request >>

\* render_template(template, results=results)
render_template(template, results) ==
  [status |-> 200, template |-> template, results |-> results]

\* Mutant of Results: the page is rendered whether or not there is a plan
ResultsUngated ==
  \E t \in Threads :
    /\ Free(t)
    /\ requests' = requests + 1
    /\ threads' = [threads EXCEPT ![t] =
         Returned([handler |-> "results", pc |-> "render", id |-> requests + 1,
                   planner_calls |-> 0, stores |-> << >>],
                  render_template("results.html", app_results))]
    /\ UNCHANGED << pc, args, ret, files, io_calls, app_results, planner, caller_topics, returned, plan_request >>

\* results, lines 159-162: without a plan the handler redirects to the home
\* page, with one it renders the results page from app_results
Results ==
  \E t \in Threads :
    /\ Free(t)
    /\ requests' = requests + 1
    /\ LET thread == [handler |-> "results", pc |-> "render", id |-> requests + 1,
                      planner_calls |-> 0, stores |-> << >>]
       IN  threads' = [threads EXCEPT ![t] =
             IF app_results.study_plan = None
               THEN Returned(thread, Redirect("home"))
               ELSE Returned(thread, render_template("results.html", app_results))]
    /\ UNCHANGED << pc, args, ret, files, io_calls, app_results, planner, caller_topics, returned, plan_request >>

\* The except clause of download_plan
DownloadFailed(thread) ==
  Returned(thread, ErrorResponse(500, "Error generating download"))

\* send_file(filename, as_attachment=True, download_name=...)
send_file(fs, filename, download_name) ==
  [status |-> 200, file |-> fs[filename], download_name |-> download_name]

\* download_plan, lines 168-169: without a plan the handler answers 400
DownloadPlan ==
  \E t \in Threads :
    /\ Free(t)
    /\ requests' = requests + 1
    /\ LET thread == [handler |-> "download_plan", pc |-> "save",
                      id |-> requests + 1, planner_calls |-> 0, stores |-> << >>]
       IN  threads' = [threads EXCEPT ![t] =
             IF app_results.study_plan = None
               THEN Returned(thread, ErrorResponse(400, "No study plan available"))
               ELSE thread]
    /\ UNCHANGED << pc, args, ret, files, io_calls, app_results, planner, caller_topics, returned, plan_request >>

\* line 172: save_study_plan_csv(app_results['study_plan'])
DownloadSave ==
  \E t \in Threads, timestamp \in Timestamps, io \in IoOutcomes :
    /\ threads[t].pc = "save"
    /\ \E weekly_plan \in {app_results.study_plan[1]} :
         \E filename \in {DefaultFilename(weekly_plan, timestamp)},
            text \in {to_csv(CsvData(weekly_plan.daily_schedules,
                                     Len(weekly_plan.daily_schedules)))} :
           /\ files' = FilesAfterSave(files, filename, text, io)
           /\ io_calls' = io_calls \o IoCallsOfSave(filename, io)
           /\ LET thread == [threads[t] EXCEPT !.planner_calls = @ + 1]
                  saved  == SaveResult(filename, io)
              IN  threads' = [threads EXCEPT ![t] =
                    IF "returned" \in DOMAIN saved
                      THEN Goto(thread, "send_file") @@ [filename |-> saved.returned]
                      ELSE DownloadFailed(thread)]
    /\ UNCHANGED << pc, args, ret, app_results, requests, planner, caller_topics, returned, plan_request >>

\* lines 174-178: the file is sent under the name of the last subject; a
\* file that does not exist makes send_file raise
DownloadSend ==
  \E t \in Threads :
    /\ threads[t].pc = "send_file"
    /\ threads' = [threads EXCEPT ![t] =
         IF threads[t].filename \in DOMAIN files
           THEN Returned(@, send_file(files, threads[t].filename,
                                      <<"study_plan_">>
                                        \o (IF app_results.last_subject = None
                                              THEN <<"None">>
                                              ELSE Pieces(app_results.last_subject[1]))
                                        \o <<".csv">>))
           ELSE DownloadFailed(@)]
    /\ UNCHANGED << pc, args, ret, files, io_calls, app_results, requests, planner, caller_topics, returned, plan_request >>

WebNext ==
  \/ ProcessStudyRequest
  \/ StoreSubject
  \/ StoreHours
  \/ StoreTopics
  \/ LoadData
  \/ StudyPlan
  \/ Quiz
  \/ SummaryText
  \/ Tips
  \/ Feedback
  \/ Results
  \/ DownloadPlan
  \/ DownloadSave
  \/ DownloadSend

WebSpec == Init /\ [][WebNext]_vars

\* ==================================================================== claims
Abs(x) == IF x >= 0 THEN x ELSE 0 - x

KnownSubjects == {"Mathematics", "Physics", "Chemistry", "Biology",
                  "Computer Science", "English", "History"}
KnownScenarios == {"exam_prep", "homework", "general_study", "project_work"}
Weekend == {"Saturday", "Sunday"}

\* The state holds a plan: create_weekly_plan or create_comprehensive_plan returned
PlanReturned == pc \in {"create_weekly_plan", "create_comprehensive_plan"}

\* The sum over all days of the durations of the blocks built from allocation k
WeekDurationOf(daily_schedules, k) ==
  SumSeq([i \in 1..Len(daily_schedules) |->
            LET schedule == daily_schedules[i].value.schedule
            IN  SumSeq([j \in 1..Len(schedule) |->
                          IF AllocationOf(schedule[j].activity) = k
                            THEN schedule[j].duration ELSE 0])])

\* C1 (as claimed): for every subject and scenario of the tables and every
\* total_hours > 0, the reading, practice and revision values returned by
\* calculate_time_distribution sum to total_hours within 0.1, also for the
\* totals daily_hours*0.8 and daily_hours*1.1 of the weekly composer.
C1_SumWithinTenth ==
  ( /\ pc = "calculate_time_distribution"
    /\ args.subject \in KnownSubjects
    /\ args.scenario \in KnownScenarios
    /\ args.total_hours > 0 )
  => /\ ret.reading % 10 = 0 /\ ret.practice % 10 = 0 /\ ret.revision % 10 = 0
     /\ Abs(ret.reading + ret.practice + ret.revision - args.total_hours) <= 10

\* C2 (as claimed): for every scenario, subject and daily_hours > 0 the summary
\* of create_comprehensive_plan reports, as total_study_hours, the sum over the
\* 7 days of the durations of the blocks built from the reading, practice and
\* revision allocations, and as reading_hours, practice_hours and
\* revision_hours the sums per activity.
C2_SummaryIsBlockSum ==
  (pc = "create_comprehensive_plan" /\ args.daily_hours > 0)
  => /\ ret.summary.reading_hours  = WeekDurationOf(ret.daily_schedules, "reading")
     /\ ret.summary.practice_hours = WeekDurationOf(ret.daily_schedules, "practice")
     /\ ret.summary.revision_hours = WeekDurationOf(ret.daily_schedules, "revision")
     /\ ret.summary.total_study_hours =
          WeekDurationOf(ret.daily_schedules, "reading")
            + WeekDurationOf(ret.daily_schedules, "practice")
            + WeekDurationOf(ret.daily_schedules, "revision")

\* C3 (as claimed): for every subject, scenario and daily_hours > 0 (so also
\* for Mathematics, 3 hours, exam_prep), summary.average_daily_hours is the
\* plan's total_weekly_hours divided by 7, rounded to one decimal.
C3_AverageIsWeeklyOverSeven ==
  (pc = "create_comprehensive_plan" /\ args.daily_hours > 0)
  => /\ ~IsTie(ret.total_weekly_hours, 7, 10)
     /\ ret.summary.average_daily_hours = Round1(ret.total_weekly_hours, 7, FALSE)

\* C4: create_weekly_plan returns daily_schedules with exactly the 7 keys
\* Monday .. Sunday, inserted and iterated in that order, for every input.
C4_SevenDaysInOrder ==
  PlanReturned
  => /\ Len(ret.daily_schedules) = 7
     /\ DictKeys(ret.daily_schedules) =
          <<"Monday", "Tuesday", "Wednesday", "Thursday", "Friday", "Saturday", "Sunday">>

\* C4 witness: a weekly plan was returned for a call with selected topics
C4_Witness ==
  /\ pc = "create_weekly_plan"
  /\ args.selected_topics # << >>
  /\ Len(ret.daily_schedules) = 7

\* The hours the claim C5 gives weekday W of a plan with daily hours h
C5_HoursOf(h, sc, W) ==
  IF sc = "general_study" /\ W \in Weekend THEN (8 * h) \div 10
  ELSE IF sc = "exam_prep" /\ W \in Weekend THEN (11 * h) \div 10
  ELSE h

\* C5: the day builder of weekday W is given daily_hours*0.8 on the weekend
\* of general_study, daily_hours*1.1 on the weekend of exam_prep and
\* daily_hours in every other case; planned_hours is that value rounded to
\* one decimal.
C5_AdjustedHours ==
  PlanReturned
  => \A i \in 1..Len(ret.daily_schedules) :
       LET W == ret.daily_schedules[i].key
           entry == ret.daily_schedules[i].value
           hours == C5_HoursOf(args.daily_hours, args.scenario, W)
       IN  /\ entry.planned_hours % 10 = 0
           /\ 2 * Abs(entry.planned_hours - hours) <= 10
           /\ entry.schedule =
                generate_daily_schedule(args.subject, hours, args.scenario,
                                        TieOf(args.fp, args.daily_hours, hours))

\* C5 witness: an exam_prep plan whose weekend hours differ from the weekday
\* hours and whose weekend schedule differs from the weekday schedule
C5_Witness ==
  /\ PlanReturned
  /\ args.scenario = "exam_prep"
  /\ args.daily_hours = 100
  /\ ret.daily_schedules[6].value.planned_hours = 110
  /\ ret.daily_schedules[1].value.planned_hours = 100

\* The plan without its scenario field, for comparing plans of two scenario tags
C6_WithoutScenario(plan) ==
  [ time_distribution |-> plan.time_distribution,
    total_weekly_hours |-> plan.total_weekly_hours,
    planned_hours   |-> [i \in 1..Len(plan.daily_schedules) |->
                           plan.daily_schedules[i].value.planned_hours],
    schedules       |-> [i \in 1..Len(plan.daily_schedules) |->
                           plan.daily_schedules[i].value.schedule],
    focus_areas     |-> [i \in 1..Len(plan.daily_schedules) |->
                           plan.daily_schedules[i].value.focus_areas],
    base_recommendations |-> Take(plan.recommendations, 5) ]

\* C6 (as claimed): the plan built with a scenario tag outside the fixed set
\* has the same time allocation, per-day planned_hours, block sequences
\* (weekend included) and base recommendations as the plan built with
\* general_study from the same arguments.
C6_UnknownScenarioIsGeneralStudy ==
  (pc = "create_comprehensive_plan" /\ args.scenario \notin KnownScenarios)
  => \E f \in FpChoices(args.subject, args.daily_hours, "general_study") :
       /\ f.day = args.fp.day
       /\ f.week = args.fp.week
       /\ C6_WithoutScenario(ret) =
            C6_WithoutScenario(
              create_comprehensive_plan(args.subject, args.daily_hours, "general_study",
                                        args.start_date, args.selected_topics, f,
                                        args.sample))

\* C7: a subject that is no exact key of the subject table is handled as the
\* default profile 0.4 / 0.4 / 0.2 (the shares the table gives Chemistry):
\* the same time distribution, the default focus areas on every day when no
\* topics are selected, and no subject-specific recommendation.
C7_UnknownSubjectDefaults ==
  /\ (pc = "calculate_time_distribution" /\ args.subject \notin KnownSubjects)
     => /\ subject_complexity["Chemistry"] = [reading |-> 40, practice |-> 40, revision |-> 20]
        /\ ret = calculate_time_distribution("Chemistry", args.total_hours,
                                             args.scenario, args.tie)
  /\ (pc = "get_daily_focus_areas" /\ args.subject \notin KnownSubjects
        /\ args.selected_topics = << >>)
     => ret = <<"Core concepts", "Practice exercises", "Review materials">>
  /\ (PlanReturned /\ args.subject \notin KnownSubjects)
     => /\ ret.time_distribution =
             calculate_time_distribution("Chemistry", 7 * args.daily_hours,
                                         args.scenario, args.fp.week)
        /\ \A i \in 1..Len(ret.daily_schedules) :
             args.selected_topics = << >>
             => ret.daily_schedules[i].value.focus_areas =
                  <<"Core concepts", "Practice exercises", "Review materials">>
  /\ (pc = "generate_study_recommendations" /\ args.subject \notin KnownSubjects)
     => \A i \in 1..Len(ret) : ret[i].kind # "subject"
  /\ (pc = "create_comprehensive_plan" /\ args.subject \notin KnownSubjects)
     => \A i \in 1..Len(ret.recommendations) : ret.recommendations[i].kind # "subject"

\* C7 witness: the time distribution of the lower-case subject "mathematics"
\* was computed, and differs from the one of the table key "Mathematics"
C7_Witness ==
  /\ pc = "calculate_time_distribution"
  /\ args.subject = "mathematics"
  /\ args.total_hours = 200
  /\ ret # calculate_time_distribution("Mathematics", 200, args.scenario, args.tie)

\* C8 (as claimed): with hours <= 0, calculate_time_distribution returns
\* reading, practice, revision and total all 0, and the plan of
\* create_comprehensive_plan has an all-zero allocation and no day with
\* positive study time.
C8_DegenerateAtNonPositiveHours ==
  /\ (pc = "calculate_time_distribution" /\ args.total_hours <= 0)
     => ret = [reading |-> 0, practice |-> 0, revision |-> 0, total |-> 0]
  /\ (pc = "create_comprehensive_plan" /\ args.daily_hours <= 0)
     => /\ ret.time_distribution = [reading |-> 0, practice |-> 0, revision |-> 0, total |-> 0]
        /\ \A k \in Activities : WeekDurationOf(ret.daily_schedules, k) = 0
        /\ ret.summary.total_study_hours = 0

\* The indices of the blocks of a schedule built from allocation k
BlocksFrom(schedule, k) ==
  {j \in 1..Len(schedule) : AllocationOf(schedule[j].activity) = k}

\* C9: for every subject, scenario and daily_hours > 0 the day schedule is
\* non-empty and holds exactly one block built from each of the reading,
\* practice and revision allocations, each of at least 0.5 hours.
C9_OneBlockPerActivity ==
  (pc = "generate_daily_schedule" /\ args.daily_hours > 0)
  => /\ ret # << >>
     /\ \A k \in Activities :
          /\ Cardinality(BlocksFrom(ret, k)) = 1
          /\ \A j \in BlocksFrom(ret, k) : ret[j].duration >= 50

\* C9 witness: a day of more than two hours whose practice block is longer
\* than the minimum
C9_Witness ==
  /\ pc = "generate_daily_schedule"
  /\ args.daily_hours > 200
  /\ \E j \in BlocksFrom(ret, "practice") : ret[j].duration > 50

\* C10: at daily_hours = 0.5 each of the reading, practice and revision blocks
\* has duration 0.5 h, so 1.5 h are scheduled; in general an activity whose
\* allocated hours round to no block is still given one 0.5 h block.
C10_LowHourOverAllocation ==
  pc = "generate_daily_schedule"
  => LET time_dist == calculate_time_distribution(args.subject, args.daily_hours,
                                                  args.scenario, args.tie)
     IN  /\ args.daily_hours = 50
            => /\ \A k \in Activities :
                    \A j \in BlocksFrom(ret, k) : ret[j].duration = 50
               /\ SumSeq([j \in 1..Len(ret) |->
                            IF AllocationOf(ret[j].activity) # "none"
                              THEN ret[j].duration ELSE 0]) = 150
         /\ \A k \in Activities :
              2 * time_dist[k] < 50
              => /\ BlocksFrom(ret, k) # {}
                 /\ \A j \in BlocksFrom(ret, k) : ret[j].duration = 50

\* C10 witness: a half-hour day whose revision allocation is 0.1 h and whose
\* revision block still lasts 0.5 h
C10_Witness ==
  /\ pc = "generate_daily_schedule"
  /\ args.daily_hours = 50
  /\ calculate_time_distribution(args.subject, 50, args.scenario, args.tie).revision = 10
  /\ \E j \in BlocksFrom(ret, "revision") : ret[j].duration = 50

\* The focus areas of the seven days, Monday first, joined into one list
RECURSIVE C11_WeekTopics(_, _, _, _)
C11_WeekTopics(subject, scenario, selected_topics, n) ==
  IF n = 0 THEN << >>
  ELSE C11_WeekTopics(subject, scenario, selected_topics, n - 1)
         \o get_daily_focus_areas(subject, Days[n], scenario, selected_topics)

\* C11: for a selected_topics list of length n >= 7, get_daily_focus_areas
\* gives each of Monday .. Saturday exactly n // 7 consecutive topics and
\* Sunday all remaining topics (n = 10: one topic per day and 4 on Sunday);
\* over the 7 days every topic is assigned exactly once, in the original order.
C11_TopicsSpreadOverWeek ==
  (pc = "get_daily_focus_areas" /\ Len(args.selected_topics) >= 7)
  => LET topics == args.selected_topics
         n == Len(topics)
         q == n \div 7
         i == CHOOSE j \in 0..6 : Days[j + 1] = args.day
     IN  /\ args.day # "Sunday"
            => /\ Len(ret) = q
               /\ \A j \in 1..q : ret[j] = topics[i * q + j]
         /\ args.day = "Sunday"
            => /\ Len(ret) = n - 6 * q
               /\ \A j \in 1..(n - 6 * q) : ret[j] = topics[6 * q + j]
         /\ (n = 10 /\ args.day # "Sunday") => Len(ret) = 1
         /\ (n = 10 /\ args.day = "Sunday") => Len(ret) = 4
         /\ C11_WeekTopics(args.subject, args.scenario, topics, 7) = topics

\* C11 witness: the Sunday call for 10 topics returned the last 4 of them
C11_Witness ==
  /\ pc = "get_daily_focus_areas"
  /\ Len(args.selected_topics) = 10
  /\ args.day = "Sunday"
  /\ ret = SubSeq(args.selected_topics, 7, 10)

\* The recommendation list a state holds, or << >> when it holds none
RecommendationsReturned ==
  IF pc = "generate_study_recommendations" THEN ret
  ELSE IF pc = "create_comprehensive_plan" THEN ret.recommendations
  ELSE << >>

\* The hours the recommendations of the state were generated for
C12_Hours ==
  IF pc = "generate_study_recommendations" THEN args.available_hours
  ELSE args.daily_hours

\* C12: for every subject, available_hours and scenario the recommendation
\* list has at most 7 entries; its first 5 are the fixed base tips of the
\* scenario (of general_study for an unknown scenario) in their fixed order;
\* after them come the hours-based tip and then the subject-specific tips.
C12_BaseTipsFirst ==
  pc \in {"generate_study_recommendations", "create_comprehensive_plan"}
  => LET recs == RecommendationsReturned
         branch == IF args.scenario \in KnownScenarios
                     THEN args.scenario ELSE "general_study"
     IN  /\ Len(recs) >= 5
         /\ Len(recs) <= 7
         /\ \A i \in 1..5 : recs[i] = [kind |-> "scenario", key |-> branch, idx |-> i]
         /\ \A i \in 6..Len(recs) : recs[i].kind \in {"hours", "subject"}
         /\ \A i \in 6..Len(recs) : recs[i].kind = "hours" => i = 6
         /\ \A i \in 6..Len(recs) :
              recs[i].kind = "subject"
              => /\ recs[i].key = args.subject
                 /\ recs[i].idx \in 1..4
                 /\ \A j \in 6..Len(recs) : (j # i => recs[j] # recs[i])

\* C12 witness: a list cut to 7 entries, holding the 5 base tips, the
\* hours-based tip and one of the two sampled subject tips
C12_Witness ==
  /\ pc = "generate_study_recommendations"
  /\ Len(ret) = 7
  /\ ret[5].kind = "scenario"
  /\ ret[6].kind = "hours"
  /\ ret[7].kind = "subject"

\* The hours-based tips in a recommendation list
C13_HoursTipsIn(recs) == {i \in 1..Len(recs) : recs[i].kind = "hours"}

\* C13 (as claimed): for every available_hours the recommendation list holds
\* exactly 1 hours-based tip.
C13_ExactlyOneHoursTip ==
  pc \in {"generate_study_recommendations", "create_comprehensive_plan"}
  => Cardinality(C13_HoursTipsIn(RecommendationsReturned)) = 1

\* C13 (amended): the recommendation list holds at most 1 hours-based tip: the
\* increase-study-time tip when hours < 1, the Pomodoro tip when
\* 2 <= hours <= 4, the 90-minute-chunking tip when hours > 4, and none when
\* 1 <= hours < 2.
C13_HoursTipByThreshold ==
  pc \in {"generate_study_recommendations", "create_comprehensive_plan"}
  => LET recs == RecommendationsReturned
         h == C12_Hours
         tips == {recs[i].key : i \in C13_HoursTipsIn(recs)}
     IN  /\ Cardinality(C13_HoursTipsIn(recs)) <= 1
         /\ h < 100 => tips = {"increase_study_time"}
         /\ (h >= 100 /\ h < 200) => tips = {}
         /\ (h >= 200 /\ h <= 400) => tips = {"pomodoro"}
         /\ h > 400 => tips = {"chunking_90_minutes"}

\* C13 witness: at exactly 4 hours the Pomodoro tip was given
C13_Witness ==
  /\ pc = "generate_study_recommendations"
  /\ args.available_hours = 400
  /\ ret[6] = [kind |-> "hours", key |-> "pomodoro", idx |-> 1]

\* A recommendation list without its subject-specific entries
C14_WithoutSubjectTips(recs) == SelectSeq(recs, LAMBDA t : t.kind # "subject")

C18_DaysIn(year, month) ==
  IF month \in {4, 6, 9, 11} THEN 30
  ELSE IF month # 2 THEN 31
  ELSE IF year % 400 = 0 THEN 29
  ELSE IF year % 100 = 0 THEN 28
  ELSE IF year % 4 = 0 THEN 29
  ELSE 28

\* The calendar day after a date
C18_NextDay(date) ==
  IF date.day < C18_DaysIn(date.year, date.month)
    THEN [date EXCEPT !.day = @ + 1]
  ELSE IF date.month < 12
    THEN [year |-> date.year, month |-> date.month + 1, day |-> 1]
  ELSE [year |-> date.year + 1, month |-> 1, day |-> 1]

RECURSIVE C18_DaysLater(_, _)
C18_DaysLater(date, i) ==
  IF i = 0 THEN date ELSE C18_NextDay(C18_DaysLater(date, i - 1))

\* C18: the dates of the plan's days are consecutive calendar days starting at
\* start_date: the Monday entry carries start_date itself (2024-01-15 in the
\* usage example) and the i-th entry, i = 0 .. 6 in Monday .. Sunday order,
\* start_date + i days, for every start_date given as a YYYY-MM-DD string.
C18_ConsecutiveDates ==
  PlanReturned
  => /\ ret.daily_schedules[1].key = "Monday"
     /\ ret.daily_schedules[1].value.date = args.start_date
     /\ ret.start_date = args.start_date
     /\ \A i \in 0..6 :
          ret.daily_schedules[i + 1].value.date =
            isoformat(C18_DaysLater(strptime(args.start_date), i))
     /\ args.start_date = <<"2", "0", "2", "4", "-", "0", "1", "-", "1", "5">>
        => /\ ret.daily_schedules[2].value.date =
                <<"2", "0", "2", "4", "-", "0", "1", "-", "1", "6">>
           /\ ret.daily_schedules[7].value.date =
                <<"2", "0", "2", "4", "-", "0", "1", "-", "2", "1">>

\* C18 witness: a plan starting on 2024-02-26 whose Thursday is the leap day
\* and whose Friday is 2024-03-01
C18_Witness ==
  /\ PlanReturned
  /\ args.start_date = <<"2", "0", "2", "4", "-", "0", "2", "-", "2", "6">>
  /\ ret.daily_schedules[4].value.date =
       <<"2", "0", "2", "4", "-", "0", "2", "-", "2", "9">>
  /\ ret.daily_schedules[5].value.date =
       <<"2", "0", "2", "4", "-", "0", "3", "-", "0", "1">>

\* The break blocks of the four scenario branches
BreakActivities == {"Break", "Short Break", "Creative Break"}

\* The positions of the break blocks of a schedule
BreaksOf(schedule) == {j \in 1..Len(schedule) : schedule[j].activity \in BreakActivities}

\* The break blocks stand directly after the blocks built from the allocations ks
C19_BreaksAfter(schedule, ks) ==
  /\ \A j \in BreaksOf(schedule) :
       /\ schedule[j].duration = 25
       /\ j > 1
       /\ AllocationOf(schedule[j - 1].activity) \in ks
  /\ \A k \in ks :
       \E j \in BreaksOf(schedule) : AllocationOf(schedule[j - 1].activity) = k

\* C19 (as claimed): in every scenario alike the day's sequence holds no 0.25 h
\* break block when daily_hours <= 1, exactly one, after the reading block,
\* when 1 < daily_hours <= 2, and exactly two, the second after the practice
\* block, when daily_hours > 2.
C19_SameBreaksInEveryScenario ==
  pc = "generate_daily_schedule"
  => LET h == args.daily_hours
     IN  /\ h <= 100 => BreaksOf(ret) = {}
         /\ (h > 100 /\ h <= 200)
            => Cardinality(BreaksOf(ret)) = 1 /\ C19_BreaksAfter(ret, {"reading"})
         /\ h > 200
            => Cardinality(BreaksOf(ret)) = 2
               /\ C19_BreaksAfter(ret, {"reading", "practice"})

\* The hours above which a scenario branch inserts its only break
C19_BreakAbove(scenario) ==
  IF scenario = "exam_prep" THEN 150
  ELSE IF scenario = "homework" THEN 100
  ELSE 200

\* C19 (amended): break insertion depends on the scenario.  The general_study
\* sequence (also built for an unknown scenario) holds no break block when
\* daily_hours <= 1, exactly one, after the reading block, when
\* 1 < daily_hours <= 2, and exactly two, the second after the practice block,
\* when daily_hours > 2.  The exam_prep, homework and project_work sequences
\* hold at most one break block, directly after the practice block, present
\* exactly when daily_hours > 1.5, > 1 and > 2 respectively.
C19_BreaksPerScenario ==
  pc = "generate_daily_schedule"
  => LET h == args.daily_hours
     IN  IF args.scenario \in {"exam_prep", "homework", "project_work"}
           THEN /\ h <= C19_BreakAbove(args.scenario) => BreaksOf(ret) = {}
                /\ h > C19_BreakAbove(args.scenario)
                   => Cardinality(BreaksOf(ret)) = 1
                      /\ C19_BreaksAfter(ret, {"practice"})
           ELSE /\ h <= 100 => BreaksOf(ret) = {}
                /\ (h > 100 /\ h <= 200)
                   => Cardinality(BreaksOf(ret)) = 1
                      /\ C19_BreaksAfter(ret, {"reading"})
                /\ h > 200
                   => Cardinality(BreaksOf(ret)) = 2
                      /\ C19_BreaksAfter(ret, {"reading", "practice"})

\* C19 witness: an exam_prep day of 1.5 hours without a break, although it is
\* longer than 1 hour
C19_Witness ==
  /\ pc = "generate_daily_schedule"
  /\ args.scenario = "exam_prep"
  /\ args.daily_hours = 150
  /\ BreaksOf(ret) = {}
  /\ Len(ret) = 4

\* The activity names of a schedule, in order
ActivityNames(schedule) == [j \in 1..Len(schedule) |-> schedule[j].activity]

\* C20: the general_study day sequence is Reading, [Break], Practice, [Break],
\* Revision: the first Break (0.25 h, directly after Reading) is present
\* exactly when daily_hours > 1, the second (0.25 h, directly after Practice)
\* exactly when daily_hours > 2; at daily_hours = 1 and daily_hours = 2 the
\* respective break is absent.
C20_GeneralStudyOrder ==
  (pc = "generate_daily_schedule" /\ args.scenario = "general_study")
  => LET h == args.daily_hours
     IN  /\ ActivityNames(ret) =
              <<"Reading">> \o (IF h > 100 THEN <<"Break">> ELSE << >>)
                \o <<"Practice">> \o (IF h > 200 THEN <<"Break">> ELSE << >>)
                \o <<"Revision">>
         /\ \A j \in 1..Len(ret) : ret[j].activity = "Break" => ret[j].duration = 25
         /\ h = 100 => ActivityNames(ret) = <<"Reading", "Practice", "Revision">>
         /\ h = 200 => ActivityNames(ret) = <<"Reading", "Break", "Practice", "Revision">>

\* C20 witness: a general_study day of exactly 2 hours with the first break
\* and without the second
C20_Witness ==
  /\ pc = "generate_daily_schedule"
  /\ args.scenario = "general_study"
  /\ args.daily_hours = 200
  /\ ActivityNames(ret) = <<"Reading", "Break", "Practice", "Revision">>

\* --- reading a csv file back (RFC 4180), for the round trip of C15
\* Reads one row: the reader stands before piece n of the text with the
\* finished fields of the row, the current field, whether it is inside a
\* quoted field, and whether the last piece was a double quote inside a quoted
\* field.  The result is the row and the position after it.  A text of one
\* row may end with the line feed of the row.
RECURSIVE C15_ReadRow(_, _, _, _, _, _)
C15_ReadRow(text, n, fields, field, quoted, pending) ==
  IF n > Len(text) THEN [row |-> Append(fields, field), next |-> n]
  ELSE LET c == text[n]
       IN  IF quoted /\ ~pending
             THEN IF c = Quote
                    THEN C15_ReadRow(text, n + 1, fields, field, TRUE, TRUE)
                    ELSE C15_ReadRow(text, n + 1, fields, Append(field, c), TRUE, FALSE)
           ELSE IF pending /\ c = Quote
             THEN C15_ReadRow(text, n + 1, fields, Append(field, c), TRUE, FALSE)
           ELSE IF c = Comma
             THEN C15_ReadRow(text, n + 1, Append(fields, field), << >>, FALSE, FALSE)
           ELSE IF c = LineFeed
             THEN [row |-> Append(fields, field), next |-> n + 1]
           ELSE IF c = Quote /\ field = << >> /\ ~quoted
             THEN C15_ReadRow(text, n + 1, fields, field, TRUE, FALSE)
           ELSE C15_ReadRow(text, n + 1, fields, Append(field, c), quoted, FALSE)

\* The positions of the line feeds that end a row: those outside a quoted
\* field, which are the ones with an even number of double quotes before them
C15_RowEnds(text) ==
  {n \in 1..Len(text) :
     /\ text[n] = LineFeed
     /\ Cardinality({m \in 1..(n - 1) : text[m] = Quote}) % 2 = 0}

\* The rows of a csv text, the header row first
C15_Rows(text) ==
  LET ends == C15_RowEnds(text)
      end(i) == IF i = 0 THEN 0
                ELSE CHOOSE n \in ends : Cardinality({m \in ends : m < n}) = i - 1
  IN  [i \in 1..Cardinality(ends) |->
         C15_ReadRow(SubSeq(text, end(i - 1) + 1, end(i)), 1,
                     << >>, << >>, FALSE, FALSE).row]

\* float(text) in hundredths, for a text of the form digits '.' digits
C15_FloatOf(text) ==
  LET dot == CHOOSE j \in 1..Len(text) : text[j] = "."
      frac == SubSeq(text, dot + 1, Len(text))
  IN  100 * ParseInt(SubSeq(text, 1, dot - 1))
        + (IF Len(frac) = 1 THEN 10 * ParseInt(frac) ELSE ParseInt(SubSeq(frac, 1, 2)))

\* Day, Date, Activity and Duration_Hours of every block of a plan, the days
\* in Monday .. Sunday order and the blocks of a day in schedule order
RECURSIVE C15_BlocksOf(_, _)
C15_BlocksOf(plan, n) ==
  IF n = 0 THEN << >>
  ELSE C15_BlocksOf(plan, n - 1)
         \o LET entry == DictGet(plan.daily_schedules, Days[n])
            IN  [j \in 1..Len(entry.schedule) |->
                   [ Day |-> Days[n], Date |-> entry.date, Order |-> j,
                     Activity |-> entry.schedule[j].activity,
                     Duration |-> entry.schedule[j].duration ]]

\* What the rows of a csv file say about the blocks
C15_Recovered(rows) ==
  [i \in 1..(Len(rows) - 1) |->
     LET row == rows[i + 1]
     IN  [ Day |-> row[1][1], Date |-> row[2], Order |-> ParseInt(row[3]),
           Activity |-> row[4][1], Duration |-> C15_FloatOf(row[5]) ]]

\* C15: save_study_plan_csv emits exactly one row per activity block of the
\* plan, the days in Monday .. Sunday order and Activity_Order running 1 .. k
\* within each day in schedule order; reading the file back recovers Day,
\* Date, Activity and Duration_Hours of every block exactly, with no block
\* lost, duplicated or merged.
C15_CsvRoundTrip ==
  (pc = "save_study_plan_csv" /\ "returned" \in DOMAIN ret)
  => \E rows \in {C15_Rows(files[ret.returned])} :
       /\ rows # << >>
       /\ rows[1] = [j \in 1..Len(Columns) |-> << Columns[j] >>]
       /\ \A i \in 1..Len(rows) : Len(rows[i]) = Len(Columns)
       /\ C15_Recovered(rows) = C15_BlocksOf(args.weekly_plan, 7)

\* C15 witness: the plan of a subject with a comma, quotes and a line feed in
\* its name was saved, in 35 rows under the header
C15_Witness ==
  /\ pc = "save_study_plan_csv"
  /\ "returned" \in DOMAIN ret
  /\ args.weekly_plan.subject = SpecialSubject
  /\ args.weekly_plan.daily_hours = 300
  /\ args.weekly_plan.scenario = "general_study"
  /\ Len(C15_Rows(files[ret.returned])) = 36

\* --- the file system calls a step makes
C16_NewCalls == SubSeq(io_calls', Len(io_calls) + 1, Len(io_calls'))

\* Thread t takes the save step of download_plan and a file system call fails
C16_SaveStepFails(t) ==
  /\ threads[t].handler = "download_plan"
  /\ threads[t].pc = "save"
  /\ threads'[t] # threads[t]
  /\ \E j \in 1..Len(C16_NewCalls) : ~C16_NewCalls[j].ok

\* C16: a file-write failure during the CSV export is neither retried nor
\* swallowed.  In the step of /download_plan that calls save_study_plan_csv,
\* when a file system call fails: the directory is made at most once and the
\* file is written at most once, no call follows the failed one, no filename
\* is returned to the handler, the handler returns at once with the error
\* response 500 that carries no file, and app_results, with the stored study
\* plan, is as it was.
C16_WriteFailureReported ==
  [][\A t \in Threads :
       C16_SaveStepFails(t)
       => /\ Cardinality({j \in 1..Len(C16_NewCalls) :
                            C16_NewCalls[j].call = "to_csv"}) <= 1
          /\ Cardinality({j \in 1..Len(C16_NewCalls) :
                            C16_NewCalls[j].call = "makedirs"}) <= 1
          /\ ~C16_NewCalls[Len(C16_NewCalls)].ok
          /\ \A j \in 1..(Len(C16_NewCalls) - 1) : C16_NewCalls[j].ok
          /\ "filename" \notin DOMAIN threads'[t]
          /\ threads'[t].pc = "done"
          /\ threads'[t].response.status = 500
          /\ "file" \notin DOMAIN threads'[t].response
          /\ app_results' = app_results
          /\ app_results.study_plan # None]_vars

\* C16 witness: a /download_plan request was answered 500 after the one write
\* of its file failed, with a plan stored
C16_Witness ==
  \E t \in Threads :
    /\ threads[t].handler = "download_plan"
    /\ threads[t].pc = "done"
    /\ threads[t].response.status = 500
    /\ app_results.study_plan # None
    /\ \E j \in 1..Len(io_calls) : io_calls[j].call = "to_csv" /\ ~io_calls[j].ok

\* --- the hours of a form as the claim reads them
\* The form gives a number outside 0.5 .. 12
C17_HoursOutOfRange(form) ==
  LET study_hours == float(form.study_hours)
  IN  \/ study_hours.kind = "inf"
      \/ study_hours.kind = "value"
           /\ (study_hours.value < 50 \/ study_hours.value > 1200)

\* The form gives a number and an empty subject
C17_EmptySubject(form) ==
  /\ float(form.study_hours).kind # "raised"
  /\ strip(form.subject) = << >>

\* C17: process_study_request answers 400, calls no planner method and
\* assigns nothing in app_results for every form whose study_hours is a
\* number outside 0.5 .. 12 (the numbers between 0 and 0.5 included) and for
\* every form with an empty subject.
C17_RejectsOutOfRangeHours ==
  \A t \in Threads :
    (/\ threads[t].handler = "process_study_request"
     /\ C17_HoursOutOfRange(threads[t].form) \/ C17_EmptySubject(threads[t].form))
    => /\ threads[t].pc = "done"
       /\ threads[t].response.status = 400
       /\ threads[t].planner_calls = 0
       /\ threads[t].stores = << >>

\* --- the schedules a state holds: the one generate_daily_schedule returned,
\* or those of the seven days of a returned plan
SchedulesReturned ==
  IF pc = "generate_daily_schedule" THEN { ret }
  ELSE IF PlanReturned
    THEN { ret.daily_schedules[i].value.schedule : i \in 1..Len(ret.daily_schedules) }
  ELSE { }

\* The hours of the call are positive
PositiveHours ==
  /\ pc \in {"generate_daily_schedule", "create_weekly_plan", "create_comprehensive_plan"}
  /\ args.daily_hours > 0

C21_QuarterHourOpeners == {"Quick Review", "Homework Planning"}

C22_Nearest(allocated_hours) ==
  LET q == allocated_hours \div MinBlock
  IN  CHOOSE n \in (q - 1)..(q + 1) : 2 * Abs(MinBlock * n - allocated_hours) < MinBlock

\* max(1, round(allocated_hours / 0.5)) * 0.5
C22_Duration(allocated_hours) ==
  LET blocks == C22_Nearest(allocated_hours)
  IN  (IF blocks >= 1 THEN blocks ELSE 1) * 50

\* The schedule was built from the allocation of these hours
C22_BuiltFrom(schedule, subject, hours, scenario, tie) ==
  LET time_dist == calculate_time_distribution(subject, hours, scenario, tie)
  IN  \A k \in Activities :
        /\ time_dist[k] % 10 = 0
        /\ Cardinality(BlocksFrom(schedule, k)) = 1
        /\ \A j \in BlocksFrom(schedule, k) :
             schedule[j].duration = C22_Duration(time_dist[k])

\* C22: the reading, practice and revision block of a day schedule each last
\* max(1, round(allocated_hours / 0.5)) * 0.5 hours, allocated_hours being
\* the one-decimal value calculate_time_distribution returns for the hours of
\* the day, which in a weekly plan are the weekend-adjusted hours.
C22_BlockDurationFromAllocation ==
  /\ pc = "generate_daily_schedule"
     => C22_BuiltFrom(ret, args.subject, args.daily_hours, args.scenario, args.tie)
  /\ PlanReturned
     => \A i \in 1..Len(Days) :
          LET adjusted_hours == AdjustedHours(args.daily_hours, args.scenario, Days[i])
          IN  C22_BuiltFrom(DictGet(ret.daily_schedules, Days[i]).schedule,
                            args.subject, adjusted_hours, args.scenario,
                            TieOf(args.fp, args.daily_hours, adjusted_hours))

\* C22 witness: a general_study plan whose weekend days are built from 0.8
\* times the daily hours and whose block durations of the week do not add up
\* to the weekly time_distribution
C22_Witness ==
  /\ pc = "create_weekly_plan"
  /\ args.scenario = "general_study"
  /\ args.daily_hours = 300
  /\ LET saturday == DictGet(ret.daily_schedules, "Saturday").schedule
         monday   == DictGet(ret.daily_schedules, "Monday").schedule
     IN  \E j \in BlocksFrom(saturday, "practice"), m \in BlocksFrom(monday, "practice") :
           saturday[j].duration < monday[m].duration
  /\ \E k \in Activities :
       WeekDurationOf(ret.daily_schedules, k) # ret.time_distribution[k]

\* C23 as claimed: every block of every day schedule, the breaks included,
\* carries between 3 and 5 tips.
C23_ThreeToFiveTips ==
  \A schedule \in SchedulesReturned : \A j \in 1..Len(schedule) :
    Len(schedule[j].tips) \in 3..5

\* The breaks that carry two tips
C23_TwoTipBreaks == {"Short Break", "Break"}

\* C23 amended: every block of every day schedule carries exactly 3 tips,
\* except the breaks 'Short Break' (exam_prep) and 'Break' (homework and
\* general_study), which carry exactly 2; the 'Creative Break' of
\* project_work carries 3.
C23_TipsByKind ==
  \A schedule \in SchedulesReturned : \A j \in 1..Len(schedule) :
    Len(schedule[j].tips) =
      (IF schedule[j].activity \in C23_TwoTipBreaks THEN 2 ELSE 3)

\* C23 witness: a general_study day with two breaks of two tips each
C23_Witness ==
  /\ pc = "generate_daily_schedule"
  /\ args.scenario = "general_study"
  /\ Cardinality({j \in 1..Len(ret) :
                    ret[j].activity = "Break" /\ Len(ret[j].tips) = 2}) = 2
  /\ \E j \in 1..Len(ret) : ret[j].activity = "Reading" /\ Len(ret[j].tips) = 3

\* --- what the caller sees of an object a call returned: a plan that holds
\* the caller's list shows the list as it is now
C24_View(object, topics) ==
  IF object.shares_topics THEN [object.value EXCEPT !.selected_topics = topics]
  ELSE object.value

C25_Members(list) == {list[j] : j \in 1..Len(list)}

\* The list is a run of consecutive entries of topics
C25_Contiguous(list, topics) ==
  \E first \in 1..Len(topics) :
    /\ first + Len(list) - 1 <= Len(topics)
    /\ list = SubSeq(topics, first, first + Len(list) - 1)

\* C25: for a non-empty selected_topics list of n >= 1 topics every day gets
\* a non-empty run of consecutive topics and every topic is given to some
\* day; for n < 7 the i-th day gets the i-th topic, a day after the n-th
\* other than Sunday gets the first topic again and Sunday gets the first two
\* (the only one for n = 1), so the first topic is given to more than one day.
C25_EveryDayHasTopics ==
  (pc = "get_daily_focus_areas" /\ args.selected_topics # << >>)
  => LET topics == args.selected_topics
         n == Len(topics)
         i == CHOOSE j \in 1..7 : Days[j] = args.day
         week == [d \in 1..7 |->
                    get_daily_focus_areas(args.subject, Days[d], args.scenario, topics)]
     IN  /\ ret # << >>
         /\ C25_Contiguous(ret, topics)
         /\ \A j \in 1..n : \E d \in 1..7 : topics[j] \in C25_Members(week[d])
         /\ n < 7
            => /\ i <= n => ret = << topics[i] >>
               /\ (i > n /\ args.day # "Sunday") => ret = << topics[1] >>
               /\ args.day = "Sunday"
                    => ret = (IF n = 1 THEN << topics[1] >>
                                       ELSE << topics[1], topics[2] >>)
               /\ Cardinality({d \in 1..7 : topics[1] \in C25_Members(week[d])}) > 1

\* C25 witness: the Saturday call for 3 topics returned the first topic again
C25_Witness ==
  /\ pc = "get_daily_focus_areas"
  /\ Len(args.selected_topics) = 3
  /\ args.day = "Saturday"
  /\ ret = << args.selected_topics[1] >>

\* The sum over the seven days of the unrounded adjusted hours of lines 279-284
C26_AdjustedSum(h, sc) == SumSeq([i \in 1..Len(Days) |-> C5_HoursOf(h, sc, Days[i])])

\* C26: total_weekly_hours is 7 * daily_hours and the weekly time_distribution
\* is the allocation of 7 * daily_hours, whatever the scenario; the sum of the
\* seven days' adjusted hours is 0.4 * daily_hours below that total under
\* general_study, 0.2 * daily_hours above it under exam_prep and equal to it
\* under every other scenario
C26_WeeklyTotalIgnoresAdjustment ==
  PlanReturned
  => LET h == args.daily_hours
         sum == C26_AdjustedSum(h, args.scenario)
     IN  /\ ret.total_weekly_hours = 7 * h
         /\ ret.time_distribution =
              calculate_time_distribution(args.subject, 7 * h, args.scenario, args.fp.week)
         /\ args.scenario = "general_study"
              => 10 * (ret.total_weekly_hours - sum) = 4 * h
         /\ args.scenario = "exam_prep"
              => 10 * (sum - ret.total_weekly_hours) = 2 * h
         /\ args.scenario \notin {"general_study", "exam_prep"}
              => ret.total_weekly_hours = sum

\* A general_study plan of 3 h a day: 21 h in total, 19.8 h over the days
C26_Witness ==
  /\ pc = "create_weekly_plan"
  /\ args.scenario = "general_study"
  /\ args.daily_hours = 300
  /\ ret.total_weekly_hours = 2100
  /\ C26_AdjustedSum(args.daily_hours, args.scenario) = 1980
  /\ ret.daily_schedules[7].value.planned_hours = 240

\* round(total_hours, 1) of the float the call was given
C27_RoundedInput == Round1(args.total_hours, 1, args.above)

C27_PositiveTotal == pc = "calculate_time_distribution" /\ args.total_hours > 0

\* C27 (as claimed): for total_hours > 0 the 'total' field equals total_hours
\* rounded to one decimal, for every subject and scenario
C27_TotalIsRoundedInput ==
  C27_PositiveTotal => ret.total = C27_RoundedInput

\* C27 (amended): for total_hours > 0 the 'total' field is a one-decimal value
\* within 0.05 of total_hours; it equals total_hours rounded to one decimal
\* whenever total_hours is not halfway between two one-decimal values, and it
\* is computed from the unrounded parts, so it differs from the sum of the three
\* reported parts wherever that sum is not the rounded total_hours
C27_TotalWithinRounding ==
  C27_PositiveTotal
  => /\ ret.total % 10 = 0
     /\ 2 * Abs(ret.total - args.total_hours) <= 10
     /\ ~IsTie(args.total_hours, 1, 10) => ret.total = C27_RoundedInput

\* History, general_study, 0.6 * 0.8 = 0.48 h: the parts are 0.4, 0.1 and 0.1
\* and the total is 0.5
C27_Witness ==
  /\ C27_PositiveTotal
  /\ args.subject = "History"
  /\ args.scenario = "general_study"
  /\ args.total_hours = 48
  /\ ret.total = 50
  /\ ret.reading + ret.practice + ret.revision = 60

\* The positions of the subject-specific tips in a recommendation list
C28_SubjectTipsIn(recs) == {i \in 1..Len(recs) : recs[i].kind = "subject"}

\* C28: the recommendation list holds no subject-specific tip for a subject
\* without a tip pool; for a subject with a pool it holds exactly 2 when no
\* hours-based tip applies (1 <= hours < 2) and exactly 1 when one applies;
\* the surviving tips are distinct members of the pool of the subject, and the
\* list has between 5 and 7 entries
C28_SurvivingSubjectTips ==
  pc \in {"generate_study_recommendations", "create_comprehensive_plan"}
  => LET recs == RecommendationsReturned
         h == C12_Hours
         at == C28_SubjectTipsIn(recs)
         hours_tip_applies == h < 100 \/ h >= 200
     IN  /\ Len(recs) \in 5..7
         /\ args.subject \notin subject_tips => at = {}
         /\ (args.subject \in subject_tips /\ ~hours_tip_applies) => Cardinality(at) = 2
         /\ (args.subject \in subject_tips /\ hours_tip_applies) => Cardinality(at) = 1
         /\ \A i \in at : recs[i].key = args.subject /\ recs[i].idx \in 1..PoolSize
         /\ \A i, j \in at : recs[i].idx = recs[j].idx => i = j
         /\ \A i \in at : recs[i].idx = args.sample[i - Len(recs) + Cardinality(at)]

\* 1.5 hours of Mathematics: no hours-based tip, both sampled tips survive
C28_Witness ==
  /\ pc = "generate_study_recommendations"
  /\ args.subject = "Mathematics"
  /\ args.available_hours = 150
  /\ Len(ret) = 7
  /\ ret[6] = [kind |-> "subject", key |-> "Mathematics", idx |-> 3]
  /\ ret[7] = [kind |-> "subject", key |-> "Mathematics", idx |-> 1]

\* Thread t takes a request for handler h in this step
C29_Takes(t, h) ==
  /\ requests' = requests + 1
  /\ threads'[t].handler = h
  /\ threads'[t].id = requests'

\* C29: as long as no plan is stored a request for /results is redirected to
\* the home page and a request for /download_plan is answered with status 400;
\* a stored study_plan is never reset to empty
C29_GatedUntilPlanned ==
  [][ /\ \A t \in Threads :
           (app_results.study_plan = None /\ C29_Takes(t, "results"))
           => /\ threads'[t].pc = "done"
              /\ threads'[t].response = Redirect("home")
      /\ \A t \in Threads :
           (app_results.study_plan = None /\ C29_Takes(t, "download_plan"))
           => /\ threads'[t].pc = "done"
              /\ threads'[t].response.status = 400
              /\ files' = files
      /\ app_results.study_plan # None => app_results'.study_plan # None
      /\ plan_request = 0 <=> app_results.study_plan = None ]_vars

\* A request for /results was redirected home, and later another request
\* stored a plan and went on to store its quiz
C29_Witness ==
  \E t, u \in Threads :
    /\ threads[t].handler = "results"
    /\ threads[t].response = Redirect("home")
    /\ threads[u].handler = "process_study_request"
    /\ threads[u].id > threads[t].id
    /\ threads[u].pc = "summary"
    /\ app_results.study_plan # None
    /\ app_results.quiz # None

\* The keys of app_results the other modules fill
C30_ModuleKeys == {"quiz", "summary", "tips", "feedback"}

\* C30 (as claimed): in every state reachable by any sequence or interleaving
\* of requests, whenever app_results['study_plan'] is set, last_subject and
\* last_hours are the subject and daily_hours of the stored plan, and the
\* stored quiz, summary, tips and feedback were produced by the request that
\* stored the plan
C30_StoreConsistent ==
  app_results.study_plan # None
  => LET plan == app_results.study_plan[1]
     IN  /\ app_results.last_subject = Some(plan.subject)
         /\ app_results.last_hours = Some([kind |-> "value", value |-> plan.daily_hours])
         /\ \A key \in C30_ModuleKeys :
              app_results[key] # None => app_results[key][1].request = plan_request

====
